---- MODULE Spec2Model ----
(***************************************************************************)
(* Mesh-to-part resolution and material assignment of the 3D product       *)
(* configurator: the selector matcher, the part resolver, the store of     *)
(* configuration state (useConfigStore) and the material effect of         *)
(* RifleModel (TestModelViewer.tsx), with the click handler of             *)
(* PartClickHandler.tsx.                                                   *)
(*                                                                         *)
(* Strings that the code inspects character by character (mesh names and   *)
(* selectors) are sequences of one-character strings; ids that the code    *)
(* only compares are TLA+ strings.                                         *)
(***************************************************************************)
EXTENDS Integers, Sequences, FiniteSets, TLC

\* ------------------------------------------------------------------------
\* JavaScript values
\* ------------------------------------------------------------------------
Null == "null"
Undefined == "undefined"
\* an optional number that the definition does not carry
NoNumber == -1

\* obj[key] of a Record<string,string>
Get(obj, key) == IF key \in DOMAIN obj THEN obj[key] ELSE Undefined
\* truthiness of an id-valued expression
Truthy(v) == v # Undefined /\ v # Null /\ v # ""
\* { ...obj, [key]: value }
Spread(obj, key, value) ==
  [k \in DOMAIN obj \cup {key} |-> IF k = key THEN value ELSE obj[k]]
\* delete obj[key]
Delete(obj, key) == [k \in DOMAIN obj \ {key} |-> obj[k]]
EmptyObj == [k \in {} |-> Null]

\* ------------------------------------------------------------------------
\* String primitives (String.prototype.toLowerCase / includes / startsWith /
\* endsWith, and the two regular expressions of normalizePattern)
\* ------------------------------------------------------------------------
Upper == <<"A","B","C","D","E","F","G","H","I","J","K","L","M",
           "N","O","P","Q","R","S","T","U","V","W","X","Y","Z">>
Lower == <<"a","b","c","d","e","f","g","h","i","j","k","l","m",
           "n","o","p","q","r","s","t","u","v","w","x","y","z">>
Digits == {"0","1","2","3","4","5","6","7","8","9"}

LowerChar(c) ==
  IF \E i \in 1..26 : Upper[i] = c
  THEN Lower[CHOOSE i \in 1..26 : Upper[i] = c]
  ELSE c

ToLowerCase(s) == [i \in 1..Len(s) |-> LowerChar(s[i])]

Includes(s, t) ==
  \E i \in 0..(Len(s) - Len(t)) : SubSeq(s, i + 1, i + Len(t)) = t

StartsWith(s, t) == Len(t) <= Len(s) /\ SubSeq(s, 1, Len(t)) = t

EndsWith(s, t) ==
  Len(t) <= Len(s) /\ SubSeq(s, Len(s) - Len(t) + 1, Len(s)) = t

HasChar(s, c) == \E i \in 1..Len(s) : s[i] = c

\* str.replace(/\d+/g, 'N'): every maximal run of digits becomes one "N"
RECURSIVE ReplaceDigitRuns(_)
ReplaceDigitRuns(s) ==
  IF s = <<>> THEN <<>>
  ELSE IF Head(s) \in Digits
       THEN IF Len(s) > 1 /\ s[2] \in Digits
            THEN ReplaceDigitRuns(Tail(s))
            ELSE <<"N">> \o ReplaceDigitRuns(Tail(s))
       ELSE <<Head(s)>> \o ReplaceDigitRuns(Tail(s))

\* length of the run of digits that ends the string
RECURSIVE TrailingDigits(_)
TrailingDigits(s) ==
  IF s # <<>> /\ s[Len(s)] \in Digits
  THEN 1 + TrailingDigits(SubSeq(s, 1, Len(s) - 1))
  ELSE 0

\* str.replace(/-\d+$/g, ''): the leftmost match that reaches the end is a
\* '-' followed by digits only, up to the end of the string
StripDashNumber(s) ==
  LET k == TrailingDigits(s) IN
  IF k >= 1 /\ Len(s) > k /\ s[Len(s) - k] = "-"
  THEN SubSeq(s, 1, Len(s) - k - 1)
  ELSE s

\* new RegExp('^' + escaped selector with * -> .* + '$', 'i').test(name):
\* every character but '*' is literal, compared without case
RECURSIVE WildcardTest(_, _)
WildcardTest(pattern, name) ==
  IF pattern = <<>> THEN name = <<>>
  ELSE IF Head(pattern) = "*"
       THEN \/ WildcardTest(Tail(pattern), name)
            \/ (name # <<>> /\ WildcardTest(pattern, Tail(name)))
       ELSE /\ name # <<>>
            /\ LowerChar(Head(pattern)) = LowerChar(Head(name))
            /\ WildcardTest(Tail(pattern), Tail(name))

\* ------------------------------------------------------------------------
\* Selector Matcher
\* ------------------------------------------------------------------------
normalizePattern(str) ==
  ToLowerCase(StripDashNumber(ReplaceDigitRuns(str)))

\* the four rules, each on its own
RuleExact(meshName, selector) == meshName = selector
RuleWildcard(meshName, selector) ==
  HasChar(selector, "*") /\ WildcardTest(selector, meshName)
RuleKeyword(meshName, selector) ==
  /\ ~HasChar(selector, "_") /\ ~HasChar(selector, "-")
  /\ Includes(ToLowerCase(meshName), ToLowerCase(selector))
RuleNormalized(meshName, selector) ==
  \/ Includes(normalizePattern(meshName), normalizePattern(selector))
  \/ Includes(normalizePattern(selector), normalizePattern(meshName))

\* a matcher that goes on to the next rule when a rule fails
meshMatchesAnyRule(meshName, selector) ==
  \/ RuleExact(meshName, selector)
  \/ RuleWildcard(meshName, selector)
  \/ RuleKeyword(meshName, selector)
  \/ RuleNormalized(meshName, selector)

meshMatchesSelector(meshName, selector) ==
  IF meshName = selector THEN TRUE
  ELSE IF HasChar(selector, "*") THEN WildcardTest(selector, meshName)
  ELSE IF ~HasChar(selector, "_") /\ ~HasChar(selector, "-")
       THEN Includes(ToLowerCase(meshName), ToLowerCase(selector))
  ELSE RuleNormalized(meshName, selector)

\* ------------------------------------------------------------------------
\* Mesh names of the scenes and selectors of the manifests
\* ------------------------------------------------------------------------
\* "M200_M3_Suppressor"
N_Suppressor == <<"M","2","0","0","_","M","3","_","S","u","p","p","r","e","s","s","o","r">>
\* "Direct_Thread_HUB_Mount"
N_HubMount == <<"D","i","r","e","c","t","_","T","h","r","e","a","d","_","H","U","B","_","M","o","u","n","t">>
\* "HUB_Ring-1"
N_HubRing1 == <<"H","U","B","_","R","i","n","g","-","1">>
\* "HUB_Ring_Pin"
N_HubRingPin == <<"H","U","B","_","R","i","n","g","_","P","i","n">>
\* "CT_2-012_Sear"
N_Sear == <<"C","T","_","2","-","0","1","2","_","S","e","a","r">>
\* "CT_1-003_Rail_Screw_91251A192"
N_RailScrew == <<"C","T","_","1","-","0","0","3","_","R","a","i","l","_","S","c","r","e","w","_","9","1","2","5","1","A","1","9","2">>
\* "CT_1-012_Handle_Pin_98470A136"
N_HandlePin == <<"C","T","_","1","-","0","1","2","_","H","a","n","d","l","e","_","P","i","n","_","9","8","4","7","0","A","1","3","6">>
\* "CT_1-008_Ratchet"
N_Ratchet == <<"C","T","_","1","-","0","0","8","_","R","a","t","c","h","e","t">>
\* "Trigger_Shoe"
N_TriggerShoe == <<"T","r","i","g","g","e","r","_","S","h","o","e">>
\* "Scope_Cap"
N_ScopeCap == <<"S","c","o","p","e","_","C","a","p">>
\* "CT_5-004_Carry_Handle"
N_CarryHandle == <<"C","T","_","5","-","0","0","4","_","C","a","r","r","y","_","H","a","n","d","l","e">>
\* "CT_5-005_Handle_Clamp"
N_HandleClamp == <<"C","T","_","5","-","0","0","5","_","H","a","n","d","l","e","_","C","l","a","m","p">>
\* "Clamp_Knob"
N_ClampKnob == <<"C","l","a","m","p","_","K","n","o","b">>
\* "CT_2-006_Bolt_Handle_Shaft"
N_BoltShaft == <<"C","T","_","2","-","0","0","6","_","B","o","l","t","_","H","a","n","d","l","e","_","S","h","a","f","t">>
\* "CT_2-007_Bolt_Handle_Knob"
N_BoltKnob == <<"C","T","_","2","-","0","0","7","_","B","o","l","t","_","H","a","n","d","l","e","_","K","n","o","b">>
\* "M200_*_Suppressor*"
S_Suppressor == <<"M","2","0","0","_","*","_","S","u","p","p","r","e","s","s","o","r","*">>
\* "HUB_Ring"
S_HubRing == <<"H","U","B","_","R","i","n","g">>
\* "*Pin*"
S_Pin == <<"*","P","i","n","*">>
\* "Handle"
S_Handle == <<"H","a","n","d","l","e">>
\* "*HUB_Mount*"
S_HubMountAny == <<"*","H","U","B","_","M","o","u","n","t","*">>
\* "M200_Rifle_-_Alpha_Suppressor"
N_AlphaSuppressor == <<"M","2","0","0","_","R","i","f","l","e","_","-","_","A","l","p","h","a","_","S","u","p","p","r","e","s","s","o","r">>
\* "M200_Rifle_-_Alpha_Brake"
N_AlphaBrake == <<"M","2","0","0","_","R","i","f","l","e","_","-","_","A","l","p","h","a","_","B","r","a","k","e">>
\* "M200_Rifle_-_*_Suppressor*"
S_RifleSuppressor == <<"M","2","0","0","_","R","i","f","l","e","_","-","_","*","_","S","u","p","p","r","e","s","s","o","r","*">>

\* no mesh (a null mesh reference)
NoMesh == <<>>

\* The meshes of FIXED_BLACK_PARTS that occur in the scenes below; the
\* list of the source has 118 names and is only ever tested for membership
\* of a mesh name.
FIXED_BLACK_PARTS == {N_RailScrew, N_Ratchet, N_HandlePin, N_Sear}

\* ------------------------------------------------------------------------
\* Manifests (ProductManifest) and the scene loaded for each
\* ------------------------------------------------------------------------
ColorDef(color, metalness, roughness) ==
  [type |-> "color", color |-> color, textureUrl |-> Undefined,
   metalness |-> metalness, roughness |-> roughness]
\* repeat: the tiling map of a texture definition, part id or "default" to
\* [repeatU, repeatV]; a definition without repeat carries the empty map
\* (both give the tiling [1,1])
NoRepeat == [k \in {} |-> <<1, 1>>]
TextureDef(url, metalness, roughness, repeat) ==
  [type |-> "texture", color |-> Undefined, textureUrl |-> url,
   metalness |-> metalness, roughness |-> roughness, repeat |-> repeat]

ColorOptions ==
  << [id |-> "black", material |-> ColorDef("#1c1c1c", 30, 80)],
     [id |-> "fde",   material |-> ColorDef("#c8a882", 40, 70)] >>
PatternOptions ==
  << [id |-> "kryptek-raid",
      material |-> TextureDef("/textures/kryptek-raid.jpg", NoNumber, NoNumber,
                              [k \in {"muzzleBrake", "default"} |->
                                 IF k = "muzzleBrake" THEN <<2, 2>>
                                 ELSE <<4, 4>>])] >>

Part(id, meshSelectors, excludeFromColor) ==
  [id |-> id, meshSelectors |-> meshSelectors,
   excludeFromColor |-> excludeFromColor]

\* MA: a muzzle device and the hub mount between barrel and suppressor.
\* ME: the hub mount alone is configurable; its pins and the mount itself
\*     are listed in excludeFromColor.
\* MB: carry handle and handle clamp both configurable; the keyword
\*     selector of the carry handle also matches the clamp and a fixed pin.
\* MC: the product of MB with only the carry handle configurable.
\* MD: the product of MB with the clamp resolved before the carry handle,
\*     and with a malformed color and a malformed pattern definition.
PartsA(hubExclusions) ==
  << Part("triggerAssembly", <<N_TriggerShoe>>, <<>>),
     Part("muzzleBrake", <<S_Suppressor>>, <<>>),
     Part("hubMount", <<N_HubMount, S_HubRing>>, hubExclusions) >>
PartsB ==
  << Part("handleClamp", <<N_HandleClamp, N_ClampKnob>>, <<>>),
     Part("carryHandle", <<S_Handle>>, <<>>) >>

Suppressors ==
  << [id |-> "none", modelFile |-> "rifle.glb"],
     [id |-> "m3-suppressor", modelFile |-> "rifle-m3.glb"] >>

\* a caliber list without the preferred '408-cheytac', a trigger list with
\* the preferred 'timney-elite-curved' in second place
Calibers == << [id |-> "375-cheytac"] >>
Triggers == << [id |-> "timney-flat"], [id |-> "timney-elite-curved"] >>

\* the options of MD: a color option whose color is the empty string and a
\* pattern option whose textureUrl is the empty string (both pass
\* z.string()); MW is MD with the two definitions well-formed
ColorOptionsD(bareColor) ==
  << [id |-> "black", material |-> ColorDef("#1c1c1c", 30, 80)],
     [id |-> "bare",  material |-> ColorDef(bareColor, 40, NoNumber)] >>
PatternOptionsD(tornUrl) ==
  << [id |-> "torn",
      material |-> TextureDef(tornUrl, NoNumber, NoNumber, NoRepeat)] >>

ManifestIds == {"MA", "ME", "MB", "MC", "MD"}
\* the manifests of the tables below: those a session loads, and MW
TableIds == ManifestIds \cup {"MW"}

ManifestOf(id) ==
  CASE id = "MA" ->
         [parts |-> PartsA(<<>>),
          hasConfigurableParts |-> TRUE,
          configurableParts |-> <<"muzzleBrake", "hubMount">>,
          hasFinishModes |-> TRUE,
          colors |-> ColorOptions, patterns |-> PatternOptions,
          suppressors |-> Suppressors,
          calibers |-> <<>>, triggers |-> <<>>]
    [] id = "ME" ->
         [parts |-> PartsA(<<S_Pin, S_HubMountAny>>),
          hasConfigurableParts |-> TRUE,
          configurableParts |-> <<"hubMount">>,
          hasFinishModes |-> TRUE,
          colors |-> ColorOptions, patterns |-> PatternOptions,
          suppressors |-> Suppressors,
          calibers |-> <<>>, triggers |-> <<>>]
    [] id = "MB" ->
         [parts |-> PartsB,
          hasConfigurableParts |-> TRUE,
          configurableParts |-> <<"carryHandle", "handleClamp">>,
          hasFinishModes |-> TRUE,
          colors |-> ColorOptions, patterns |-> PatternOptions,
          suppressors |-> <<>>,
          calibers |-> <<>>, triggers |-> <<>>]
    [] id = "MC" ->
         [parts |-> PartsB,
          hasConfigurableParts |-> TRUE,
          configurableParts |-> <<"carryHandle">>,
          hasFinishModes |-> TRUE,
          colors |-> ColorOptions, patterns |-> PatternOptions,
          suppressors |-> <<>>,
          calibers |-> Calibers, triggers |-> Triggers]
    [] id = "MD" ->
         [parts |-> PartsB,
          hasConfigurableParts |-> TRUE,
          configurableParts |-> <<"handleClamp", "carryHandle">>,
          hasFinishModes |-> TRUE,
          colors |-> ColorOptionsD(""), patterns |-> PatternOptionsD(""),
          suppressors |-> <<>>,
          calibers |-> <<>>, triggers |-> <<>>]
    [] id = "MW" ->
         [parts |-> PartsB,
          hasConfigurableParts |-> TRUE,
          configurableParts |-> <<"handleClamp", "carryHandle">>,
          hasFinishModes |-> TRUE,
          colors |-> ColorOptionsD("#808080"),
          patterns |-> PatternOptionsD("/textures/torn.jpg"),
          suppressors |-> <<>>,
          calibers |-> <<>>, triggers |-> <<>>]
    \* no manifest: every optional chain of the code yields undefined
    [] OTHER ->
         [parts |-> <<>>,
          hasConfigurableParts |-> FALSE,
          configurableParts |-> <<>>,
          hasFinishModes |-> FALSE,
          colors |-> <<>>, patterns |-> <<>>,
          suppressors |-> <<>>,
          calibers |-> <<>>, triggers |-> <<>>]

\* the manifests, built once
ManifestTable == [id \in TableIds \cup {Null} |-> ManifestOf(id)]
Manifest(id) == ManifestTable[id]

\* the mesh names of the scene that useGLTF yields for the product
Scene(id) ==
  IF id = "MA"
  THEN {N_Suppressor, N_HubMount, N_HubRing1, N_Sear, N_TriggerShoe,
        N_ScopeCap}
  ELSE IF id = "ME"
  THEN {N_HubMount, N_HubRingPin}
  ELSE IF id \in {"MB", "MC", "MD", "MW"}
  THEN {N_CarryHandle, N_HandleClamp, N_HandlePin}
  ELSE {}

Range(seq) == {seq[i] : i \in 1..Len(seq)}

\* array.find(x => x.id === id): the first element with the id, or the
\* record of id Undefined when there is none
NoPart == Part(Undefined, <<>>, <<>>)
FindPart(M, partId) ==
  LET ix == {i \in 1..Len(M.parts) : M.parts[i].id = partId} IN
  IF ix = {} THEN NoPart
  ELSE M.parts[CHOOSE i \in ix : \A j \in ix : i <= j]

NoOption == [id |-> Undefined, material |-> ColorDef(Undefined, NoNumber, NoNumber)]
FindOption(options, optionId) ==
  LET ix == {i \in 1..Len(options) : options[i].id = optionId} IN
  IF ix = {} THEN NoOption
  ELSE options[CHOOSE i \in ix : \A j \in ix : i <= j]

\* ------------------------------------------------------------------------
\* Part Resolver and Exclusion Filter
\* ------------------------------------------------------------------------
\* some selector of the sequence matches the name
AnySelectorMatches(meshName, selectors) ==
  \E i \in 1..Len(selectors) : meshMatchesSelector(meshName, selectors[i])

RECURSIVE findPartIn(_, _, _)
findPartIn(meshName, partIds, M) ==
  IF partIds = <<>> THEN Null
  ELSE IF AnySelectorMatches(meshName, FindPart(M, Head(partIds)).meshSelectors)
       THEN Head(partIds)
       ELSE findPartIn(meshName, Tail(partIds), M)

\* a resolver that prefers the part with a selector equal to the name
findPartExactFirst(meshName, configurableParts, M) ==
  LET exact == {i \in 1..Len(configurableParts) :
                  meshName \in
                    Range(FindPart(M, configurableParts[i]).meshSelectors)}
  IN IF exact # {}
     THEN configurableParts[CHOOSE i \in exact : \A j \in exact : i <= j]
     ELSE findPartIn(meshName, configurableParts, M)

findPartForMesh(meshName, configurableParts, M) ==
  findPartIn(meshName, configurableParts, M)

isExcludedFromColor(meshName, partId, M) ==
  AnySelectorMatches(meshName, FindPart(M, partId).excludeFromColor)

ConfigurableParts(M) ==
  IF M.hasConfigurableParts THEN M.configurableParts ELSE <<>>

\* findPartForMesh(name, manifest.configurableParts || [], manifest) and
\* isExcludedFromColor for every mesh of every scene, computed once: both
\* depend on the manifest and the mesh name only
partsOfScene(id, M) ==
  [meshName \in Scene(id) |->
     findPartForMesh(meshName, ConfigurableParts(M), M)]
PartOfMesh == [id \in TableIds |-> partsOfScene(id, Manifest(id))]

excludedOfScene(id, M, parts) ==
  [meshName \in Scene(id) |->
     /\ Truthy(parts[meshName])
     /\ isExcludedFromColor(meshName, parts[meshName], M)]
ExcludedMesh ==
  [id \in TableIds |-> excludedOfScene(id, Manifest(id), PartOfMesh[id])]

\* ------------------------------------------------------------------------
\* Material Factory (THREE.MeshStandardMaterial values)
\* ------------------------------------------------------------------------
\* numbers are in hundredths; map is the texture-cache key (url, partId) of
\* the texture the material refers to, <<>> when it has none
Material(color, map, metalness, roughness) ==
  [color |-> color, map |-> map, metalness |-> metalness,
   roughness |-> roughness, emissive |-> "#000000", emissiveIntensity |-> 100]

\* the material a mesh of the loaded GLB carries before any pass
OriginalMaterial == Material("gltf", <<>>, 50, 50)
\* the static neutral-dark material of fixed and excluded meshes
FixedBlackMaterial == Material("#1a1a1a", <<>>, 20, 80)
\* the generic neutral default of a configurable part without a finish
DefaultMaterial == Material("#666666", <<>>, 30, 80)

\* value ?? fallback
OrElse(value, fallback) == IF value = NoNumber THEN fallback ELSE value

\* a factory that trusts the definition: the texture branch on the type
\* alone, the color as it stands
createMaterialUnchecked(materialDef, partId) ==
  IF materialDef.type = "texture"
  THEN Material("#ffffff", <<materialDef.textureUrl, partId>>,
                OrElse(materialDef.metalness, 20),
                OrElse(materialDef.roughness, 80))
  ELSE Material(materialDef.color, <<>>,
                OrElse(materialDef.metalness, 30),
                OrElse(materialDef.roughness, 80))

createMaterialFromDefinition(materialDef, partId) ==
  IF materialDef.type = "texture" /\ Truthy(materialDef.textureUrl)
  THEN Material("#ffffff", <<materialDef.textureUrl, partId>>,
                OrElse(materialDef.metalness, 20),
                OrElse(materialDef.roughness, 80))
  ELSE Material(IF Truthy(materialDef.color) THEN materialDef.color
                ELSE "#666666",
                <<>>,
                OrElse(materialDef.metalness, 30),
                OrElse(materialDef.roughness, 80))

\* textureCache: cache key to the tiling of the texture cached under it
\* (texture.repeat); <<url>> is the key of the base texture,
\* <<url, partId>> the key of a part's texture; map of a material is the
\* key of its texture
EmptyCache == [k \in {} |-> <<1, 1>>]

\* the tiling set on a texture that was just loaded or cloned
repeatSettings(materialDef, partId) ==
  IF Truthy(partId)
  THEN IF partId \in DOMAIN materialDef.repeat
       THEN materialDef.repeat[partId]
       ELSE IF "default" \in DOMAIN materialDef.repeat
       THEN materialDef.repeat["default"]
       ELSE <<1, 1>>
  ELSE <<1, 1>>

\* a factory whose cache hit hands out the texture with the tiling [1,1]
textureCacheHitUntiled(cache, materialDef, partId) ==
  IF materialDef.type = "texture" /\ Truthy(materialDef.textureUrl)
  THEN LET cacheKey == <<materialDef.textureUrl, partId>>
           baseKey == <<materialDef.textureUrl>>
           entries == {cacheKey} \cup
                      (IF baseKey \in DOMAIN cache THEN {} ELSE {baseKey})
       IN [k \in DOMAIN cache \cup entries |->
             IF k = cacheKey /\ cacheKey \in DOMAIN cache THEN <<1, 1>>
             ELSE IF k \in entries THEN repeatSettings(materialDef, partId)
             ELSE cache[k]]
  ELSE cache

\* textureCache after createMaterialFromDefinition(materialDef, partId): a
\* hit leaves the cache and the cached texture alone; a miss stores the new
\* texture under cacheKey, and under the url when no base texture is cached
\* (one and the same texture object)
textureCacheAfter(cache, materialDef, partId) ==
  IF materialDef.type = "texture" /\ Truthy(materialDef.textureUrl)
  THEN LET cacheKey == <<materialDef.textureUrl, partId>>
           baseKey == <<materialDef.textureUrl>>
           entries == {cacheKey} \cup
                      (IF baseKey \in DOMAIN cache THEN {} ELSE {baseKey})
       IN IF cacheKey \in DOMAIN cache THEN cache
          ELSE [k \in DOMAIN cache \cup entries |->
                  IF k \in entries THEN repeatSettings(materialDef, partId)
                  ELSE cache[k]]
  ELSE cache

\* the emissive tint of a hovered or selected part, and its clearing
Highlighted(mat) ==
  [mat EXCEPT !.emissive = "#BA2025", !.emissiveIntensity = 40]
Unhighlighted(mat) ==
  [mat EXCEPT !.emissive = "#000000", !.emissiveIntensity = 0]

\* ------------------------------------------------------------------------
\* Legacy material table (useConfigStore.getSelectedMaterials)
\* ------------------------------------------------------------------------
\* the entries of alwaysBlackMeshes that can meet a scene or a selector
\* above (the list of the source also names six bipod meshes)
alwaysBlackMeshes == <<N_HubMount, S_HubMountAny, N_BoltShaft, N_BoltKnob>>

blackMaterial == ColorDef("#000000", 30, 80)

shouldStayBlack(meshName) ==
  \E i \in 1..Len(alwaysBlackMeshes) :
    LET pattern == alwaysBlackMeshes[i] IN
    IF StartsWith(pattern, <<"*">>) /\ EndsWith(pattern, <<"*">>)
    THEN Includes(meshName, SubSeq(pattern, 2, Len(pattern) - 1))
    ELSE meshName = pattern

\* materials[selector] = def for every selector of the sequence that passes
\* the filter
WriteSelectors(materials, keys, def) ==
  [k \in DOMAIN materials \cup keys |->
     IF k \in keys THEN def ELSE materials[k]]

\* the option whose material getSelectedMaterials writes for one part,
\* NoOption when it writes nothing
legacyOption(partId, st, M) ==
  LET override == Get(st.partColorOverrides, partId)
      selected == Get(st.selectedColors, partId)
  IN
  IF st.finishMode = "patterns"
  THEN IF Truthy(st.selectedPattern)
       THEN IF FindOption(M.patterns, st.selectedPattern).id = Undefined
            THEN NoOption
            ELSE IF Truthy(override)
                 THEN FindOption(M.colors, override)
                 ELSE FindOption(M.patterns, st.selectedPattern)
       ELSE LET colorId == IF Truthy(override) THEN override ELSE selected IN
            IF Truthy(colorId) THEN FindOption(M.colors, colorId) ELSE NoOption
  ELSE IF st.finishMode = "colors"
  THEN IF Truthy(selected) THEN FindOption(M.colors, selected) ELSE NoOption
  ELSE NoOption

\* the selectors of each part that getSelectedMaterials may write
\* (!shouldStayBlack(selector)), computed once per manifest
writableSelectors(M) ==
  [partId \in Range(ConfigurableParts(M)) |->
     {sel \in Range(FindPart(M, partId).meshSelectors) :
        ~shouldStayBlack(sel)}]
LegacySelectors == [id \in TableIds |-> writableSelectors(Manifest(id))]

\* what the callbacks of one traversal look up: the manifest of the
\* snapshot, and per mesh or part what depends on that manifest alone
tablesOfScene(id, M, parts) ==
  [M |-> M, parts |-> parts,
   excluded |-> excludedOfScene(id, M, parts),
   selectors |-> writableSelectors(M)]
tablesOfManifest(id, M) == tablesOfScene(id, M, partsOfScene(id, M))
SceneTables == [id \in TableIds |-> tablesOfManifest(id, Manifest(id))]

\* K: the entry of SceneTables for the manifest of st
RECURSIVE legacyPartWrites(_, _, _, _)
legacyPartWrites(materials, partIds, st, K) ==
  IF partIds = <<>> THEN materials
  ELSE LET option == legacyOption(Head(partIds), st, K.M)
           keys == K.selectors[Head(partIds)]
           written == IF option.id = Undefined THEN materials
                      ELSE WriteSelectors(materials, keys, option.material)
       IN legacyPartWrites(written, Tail(partIds), st, K)

legacyMaterials(st, K) ==
  LET M == K.M
      trigger == WriteSelectors([k \in {} |-> blackMaterial],
                   Range(FindPart(M, "triggerAssembly").meshSelectors),
                   blackMaterial)
      finished == legacyPartWrites(trigger,
                    IF M.hasConfigurableParts THEN M.configurableParts
                    ELSE <<>>, st, K)
  IN WriteSelectors(finished, Range(alwaysBlackMeshes), blackMaterial)

getSelectedMaterials(st) ==
  IF st.manifest = Null THEN [k \in {} |-> blackMaterial]
  ELSE legacyMaterials(st, SceneTables[st.manifest])

\* ------------------------------------------------------------------------
\* Material Resolver, Coupling Rule and the material effect of RifleModel
\* ------------------------------------------------------------------------
\* A snapshot S is the record of the values the effect closes over:
\* manifest, finishMode, selectedPattern, selectedColors,
\* partColorOverrides, selectedSuppressor, hoveredMesh, selectedMesh.

\* the finish option the effect picks for a resolved part (NoOption when it
\* leaves materialToApply null)
\* a resolver in which the selected pattern wins over the override
finishOptionPatternFirst(partId, S, M) ==
  LET override == Get(S.partColorOverrides, partId)
      selected == Get(S.selectedColors, partId)
  IN
  IF S.finishMode = "patterns" /\ Truthy(S.selectedPattern)
  THEN FindOption(M.patterns, S.selectedPattern)
  ELSE IF S.finishMode = "patterns"
  THEN LET colorId == IF Truthy(override) THEN override ELSE selected IN
       IF Truthy(colorId) THEN FindOption(M.colors, colorId) ELSE NoOption
  ELSE IF Truthy(selected) THEN FindOption(M.colors, selected) ELSE NoOption

finishOption(partId, S, M) ==
  LET override == Get(S.partColorOverrides, partId)
      selected == Get(S.selectedColors, partId)
  IN
  IF S.finishMode = "patterns" /\ Truthy(S.selectedPattern)
  THEN IF Truthy(override)
       THEN FindOption(M.colors, override)
       ELSE FindOption(M.patterns, S.selectedPattern)
  ELSE IF S.finishMode = "patterns" /\ ~Truthy(S.selectedPattern)
  THEN LET colorId == IF Truthy(override) THEN override ELSE selected IN
       IF Truthy(colorId) THEN FindOption(M.colors, colorId) ELSE NoOption
  ELSE IF S.finishMode = "colors"
  THEN IF Truthy(selected) THEN FindOption(M.colors, selected) ELSE NoOption
  ELSE NoOption

muzzleBrakePartId == "muzzleBrake"

\* the option whose material the hub mount copies while a suppressor is
\* attached (NoOption when suppressorMaterial stays null)
suppressorOption(S, M) ==
  LET override == Get(S.partColorOverrides, muzzleBrakePartId)
      selected == Get(S.selectedColors, muzzleBrakePartId)
  IN
  IF Truthy(override)
  THEN FindOption(M.colors, override)
  ELSE IF S.finishMode = "patterns" /\ Truthy(S.selectedPattern)
  THEN FindOption(M.patterns, S.selectedPattern)
  ELSE IF S.finishMode = "colors" /\ Truthy(selected)
  THEN FindOption(M.colors, selected)
  ELSE NoOption

\* a pass without the fixed-black check
isNeverFixedBlack(meshName) == FALSE

isFixedBlack(meshName) == meshName \in FIXED_BLACK_PARTS

\* the hub mount takes the suppressor's material and skips the rest
hubMountCoupled(meshName, S, M) ==
  /\ meshName = N_HubMount
  /\ Truthy(S.selectedSuppressor) /\ S.selectedSuppressor # "none"
  /\ suppressorOption(S, M).id # Undefined

\* hoveredPartId / selectedPartId of the effect
partOfMeshRef(mesh, id) ==
  IF mesh # NoMesh /\ id # Null THEN PartOfMesh[id][mesh] ELSE Null

\* the part of the hovered or selected mesh among the parts of the scene
partOfRef(mesh, parts) == IF mesh # NoMesh THEN parts[mesh] ELSE Null

\* emissive of a mesh that received materialToApply; parts: the part of
\* every mesh of the scene
withHighlight(mat, meshName, S, parts) ==
  LET partId == parts[meshName]
      hoveredPartId == partOfRef(S.hoveredMesh, parts)
      selectedPartId == partOfRef(S.selectedMesh, parts)
      shouldHighlight ==
        \/ (Truthy(hoveredPartId) /\ partId = hoveredPartId)
        \/ (Truthy(selectedPartId) /\ partId = selectedPartId)
  IN IF shouldHighlight THEN Highlighted(mat) ELSE Unhighlighted(mat)

\* the callback of the traversal for one mesh: current is the material the
\* mesh carries, S the snapshot of the effect, F the store that the finish
\* of a part is resolved against, K the entry of SceneTables for the
\* manifest of S, legacy the table of getSelectedMaterials()
paintMesh(meshName, current, S, F, K, legacy) ==
  LET M == K.M
      flexible == M.hasConfigurableParts /\ M.hasFinishModes
      partId == IF flexible THEN K.parts[meshName] ELSE Null
  IN
  IF isFixedBlack(meshName) THEN FixedBlackMaterial
  ELSE IF hubMountCoupled(meshName, S, M)
  THEN createMaterialFromDefinition(suppressorOption(S, M).material,
                                    muzzleBrakePartId)
  ELSE IF Truthy(partId)
  THEN IF K.excluded[meshName] THEN FixedBlackMaterial
       ELSE LET option == finishOption(partId, F, M) IN
            IF option.id # Undefined
            THEN withHighlight(
                   createMaterialFromDefinition(option.material, partId),
                   meshName, S, K.parts)
            ELSE DefaultMaterial
  ELSE IF meshName \in DOMAIN legacy
       THEN withHighlight(
              createMaterialFromDefinition(legacy[meshName], Undefined),
              meshName, S, K.parts)
       ELSE current

\* a traversal that resolves the finish of a part against the live store
applyToMeshLive(meshName, current, S, store) ==
  paintMesh(meshName, current, S, store, SceneTables[S.manifest],
            getSelectedMaterials(store))

\* one mesh of the traversal: the finish of a part comes from the snapshot
\* S, the table of getSelectedMaterials from the live store
applyToMesh(meshName, current, S, store) ==
  paintMesh(meshName, current, S, S, SceneTables[S.manifest],
            getSelectedMaterials(store))

\* textureCache after the callback of one mesh: the createMaterialFromDefinition
\* call of that mesh, if it makes one
cacheOfMesh(cache, meshName, S, K, legacy) ==
  LET M == K.M
      flexible == M.hasConfigurableParts /\ M.hasFinishModes
      partId == IF flexible THEN K.parts[meshName] ELSE Null
  IN
  IF isFixedBlack(meshName) THEN cache
  ELSE IF hubMountCoupled(meshName, S, M)
  THEN textureCacheAfter(cache, suppressorOption(S, M).material,
                         muzzleBrakePartId)
  ELSE IF Truthy(partId)
  THEN IF K.excluded[meshName] THEN cache
       ELSE LET option == finishOption(partId, S, M) IN
            IF option.id # Undefined
            THEN textureCacheAfter(cache, option.material, partId)
            ELSE cache
  ELSE IF meshName \in DOMAIN legacy
       THEN textureCacheAfter(cache, legacy[meshName], Undefined)
       ELSE cache

cacheAfterMesh(cache, meshName, S, store) ==
  cacheOfMesh(cache, meshName, S, SceneTables[S.manifest],
              getSelectedMaterials(store))

\* textureCache after the traversal of the meshes in scene order
RECURSIVE cacheAfterMeshes(_, _, _, _)
cacheAfterMeshes(cache, meshes, S, store) ==
  IF meshes = {} THEN cache
  ELSE LET meshName == CHOOSE n \in meshes : TRUE IN
       cacheAfterMeshes(cacheAfterMesh(cache, meshName, S, store),
                        meshes \ {meshName}, S, store)

cacheAfterPass(cache, materials, S, store) ==
  IF S.manifest = Null THEN cache
  ELSE cacheAfterMeshes(cache, DOMAIN materials, S, store)

\* modelRef.current.traverse(...) of the effect
applyMaterials(materials, S, store) ==
  IF S.manifest = Null THEN materials
  ELSE [meshName \in DOMAIN materials |->
          applyToMesh(meshName, materials[meshName], S, store)]

\* ------------------------------------------------------------------------
\* PartClickHandler: the part a clicked mesh opens the modal for
\* ------------------------------------------------------------------------
clickSelectorMatches(meshName, selector) ==
  \/ meshName = selector
  \/ IF StartsWith(selector, <<"*">>) /\ EndsWith(selector, <<"*">>)
     THEN Includes(meshName, SubSeq(selector, 2, Len(selector) - 1))
     ELSE IF StartsWith(selector, <<"*">>)
     THEN EndsWith(meshName, Tail(selector))
     ELSE IF EndsWith(selector, <<"*">>)
     THEN StartsWith(meshName, SubSeq(selector, 1, Len(selector) - 1))
     ELSE FALSE

RECURSIVE clickFindIn(_, _)
clickFindIn(meshName, parts) ==
  IF parts = <<>> THEN Null
  ELSE IF \E i \in 1..Len(Head(parts).meshSelectors) :
            clickSelectorMatches(meshName, Head(parts).meshSelectors[i])
       THEN Head(parts).id
       ELSE clickFindIn(meshName, Tail(parts))

\* findPartForMesh of PartClickHandler (over manifest.parts)
clickFindPartForMesh(meshName, M) == clickFindIn(meshName, M.parts)

\* clickFindPartForMesh for every mesh of every scene, computed once
ClickPartOfMesh ==
  [id \in TableIds |->
     [meshName \in Scene(id) |-> clickFindPartForMesh(meshName, Manifest(id))]]

\* onClick: the part of the first intersected mesh whose part is
\* configurable, Null when the loop ends without opening the modal
RECURSIVE clickedPart(_, _)
clickedPart(intersects, id) ==
  IF intersects = <<>> THEN Null
  ELSE LET partId == ClickPartOfMesh[id][Head(intersects)] IN
       IF Truthy(partId) /\ Manifest(id).hasConfigurableParts
          /\ partId \in Range(Manifest(id).configurableParts)
       THEN partId
       ELSE clickedPart(Tail(intersects), id)

\* ------------------------------------------------------------------------
\* State
\* ------------------------------------------------------------------------
VARIABLES
  manifest,            \* id of the loaded manifest, Null before loadManifest
  finishMode,          \* "colors" | "patterns"
  selectedPattern,     \* pattern id or Null
  selectedColors,      \* partId -> colorId
  partColorOverrides,  \* partId -> colorId
  selectedSuppressor,  \* suppressor id or Null
  selectedCaliber,     \* caliber id or Null
  selectedTrigger,     \* trigger id or Null
  modalOpen,           \* the configuration modal is shown
  modalPartId,         \* the part the modal is open for, or Null
  hoveredMesh,         \* RifleModel state: name of the hovered mesh / NoMesh
  selectedMesh,        \* RifleModel state: name of the selected mesh / NoMesh
  sceneLoaded,         \* RifleModel is mounted with its scene clone
  textureCache,        \* the module-level texture cache (key to tiling)
  effect,              \* the material effect of the last committed render:
                       \* the values it closes over, and whether it has
                       \* still to run
  meshMaterial,        \* mesh name -> material the mesh carries
  probe,               \* a call of one of the pure functions and its result
  heap,                \* the textures and materials the factory created, the
                       \* Map that keeps the textures, the loads of
                       \* textureLoader and the material of every mesh
  page                 \* App: the config parameter of the page URL and the
                       \* timer of loadSharedConfig

hardwareVars == <<selectedCaliber, selectedTrigger>>
storeVars == <<manifest, finishMode, selectedPattern, selectedColors,
               partColorOverrides, selectedSuppressor, selectedCaliber,
               selectedTrigger>>
modalVars == <<modalOpen, modalPartId>>
viewerVars == <<hoveredMesh, selectedMesh, sceneLoaded, meshMaterial,
                textureCache, effect>>
vars == <<manifest, finishMode, selectedPattern, selectedColors,
          partColorOverrides, selectedSuppressor, selectedCaliber,
          selectedTrigger, modalOpen, modalPartId,
          hoveredMesh, selectedMesh, sceneLoaded, meshMaterial,
          textureCache, effect, probe, heap, page>>

\* the values the material effect closes over (also what get() returns)
Snapshot ==
  [manifest |-> manifest, finishMode |-> finishMode,
   selectedPattern |-> selectedPattern, selectedColors |-> selectedColors,
   partColorOverrides |-> partColorOverrides,
   selectedSuppressor |-> selectedSuppressor,
   hoveredMesh |-> hoveredMesh, selectedMesh |-> selectedMesh]

\* no effect waits to run
NoEffect ==
  [closure |-> [manifest |-> Null, finishMode |-> "colors",
                selectedPattern |-> Null, selectedColors |-> EmptyObj,
                partColorOverrides |-> EmptyObj,
                selectedSuppressor |-> Null,
                hoveredMesh |-> NoMesh, selectedMesh |-> NoMesh],
   pending |-> FALSE]

\* a page opened without a shared configuration
\* urlParams.get('config') of a URL without the parameter
NoLink ==
  [finishMode |-> Null, selectedPattern |-> Null, selectedColors |-> <<>>,
   partColorOverrides |-> <<>>]
NoPage == [opened |-> NoLink, search |-> NoLink, timer |-> "none"]

\* no object was created yet
NoObjects ==
  [cache |-> [k \in {} |-> 0], textures |-> <<>>, materials |-> <<>>,
   loads |-> <<>>, mesh |-> [n \in {} |-> 0]]

NoProbe == [op |-> "none", meshName |-> <<>>, selector |-> <<>>,
            manifest |-> Null, result |-> "pending"]

Init ==
  /\ manifest = Null
  /\ finishMode = "colors"
  /\ selectedPattern = Null
  /\ selectedColors = EmptyObj
  /\ partColorOverrides = EmptyObj
  /\ selectedSuppressor = Null
  /\ selectedCaliber = Null
  /\ selectedTrigger = Null
  /\ modalOpen = FALSE
  /\ modalPartId = Null
  /\ hoveredMesh = NoMesh
  /\ selectedMesh = NoMesh
  /\ sceneLoaded = FALSE
  /\ meshMaterial = [n \in {} |-> OriginalMaterial]
  /\ textureCache = EmptyCache
  /\ effect = NoEffect
  /\ probe = NoProbe
  /\ heap = NoObjects
  /\ page = NoPage

\* ------------------------------------------------------------------------
\* The viewer's reaction to a change of the store
\* ------------------------------------------------------------------------
\* useConfigStore.getCurrentModelFile
getCurrentModelFile(manifestId, suppressorId) ==
  IF manifestId = Null THEN "product.glb"
  ELSE LET sups == Manifest(manifestId).suppressors
           ix == {i \in 1..Len(sups) : sups[i].id = suppressorId}
       IN IF ix # {} THEN sups[CHOOSE i \in ix : \A j \in ix : i <= j].modelFile
          ELSE IF Len(sups) > 0 THEN sups[1].modelFile
          ELSE "product.glb"

\* The material effect runs after the commit of every change of one of its
\* dependencies, on the values of that commit (render, commit and effect
\* in one step: no effect is left waiting).
RunEffect(materials) ==
  /\ effect' = effect
  /\ meshMaterial' =
       IF sceneLoaded' /\ manifest' # Null
       THEN applyMaterials(materials, Snapshot', Snapshot')
       ELSE materials
  /\ textureCache' =
       IF sceneLoaded' /\ manifest' # Null
       THEN cacheAfterPass(textureCache, materials, Snapshot', Snapshot')
       ELSE textureCache

\* After a store action: a change of the model file (Suspense key) remounts
\* RifleModel on the scene of the new file; otherwise the modal effect
\* clears the selection when modalPartId became null, and the material
\* effect runs.
ViewerReacts ==
  IF \/ manifest' # manifest
     \/ getCurrentModelFile(manifest', selectedSuppressor')
          # getCurrentModelFile(manifest, selectedSuppressor)
  THEN /\ sceneLoaded' = FALSE
       /\ hoveredMesh' = NoMesh
       /\ selectedMesh' = NoMesh
       /\ meshMaterial' = [n \in Scene(manifest') |-> OriginalMaterial]
       /\ textureCache' = textureCache
       /\ effect' = effect
  ELSE /\ sceneLoaded' = sceneLoaded
       /\ hoveredMesh' = hoveredMesh
       /\ selectedMesh' = IF sceneLoaded /\ modalPartId' # modalPartId
                             /\ modalPartId' = Null
                          THEN NoMesh ELSE selectedMesh
       /\ RunEffect(meshMaterial)

\* ------------------------------------------------------------------------
\* Store actions (useConfigStore)
\* ------------------------------------------------------------------------
ColorIds(M) == {M.colors[i].id : i \in 1..Len(M.colors)}
PatternIds(M) == {M.patterns[i].id : i \in 1..Len(M.patterns)}
SuppressorIds(M) == {M.suppressors[i].id : i \in 1..Len(M.suppressors)}
\* a color id that no option of finishModes.colors carries any more
RetiredColor == "retired-color"
\* the ids that share links made for an earlier version of the product
\* still carry
StaleColorIds(id) == IF id = "MC" THEN {RetiredColor} ELSE {}

defaultColors(M) ==
  IF M.hasFinishModes /\ Len(M.colors) > 0
  THEN [partId \in Range(ConfigurableParts(M)) |-> M.colors[1].id]
  ELSE EmptyObj

defaultSuppressor(M) ==
  IF "m3-suppressor" \in SuppressorIds(M) THEN "m3-suppressor"
  ELSE IF Len(M.suppressors) > 0 THEN M.suppressors[1].id
  ELSE Null

CaliberIds(M) == {M.calibers[i].id : i \in 1..Len(M.calibers)}
TriggerIds(M) == {M.triggers[i].id : i \in 1..Len(M.triggers)}

defaultCaliber(M) ==
  IF "408-cheytac" \in CaliberIds(M) THEN "408-cheytac"
  ELSE IF Len(M.calibers) > 0 THEN M.calibers[1].id
  ELSE Null

\* a default trigger that is always the first listed one
defaultTriggerFirstListed(M) ==
  IF Len(M.triggers) > 0 THEN M.triggers[1].id ELSE Null

defaultTrigger(M) ==
  IF "timney-elite-curved" \in TriggerIds(M) THEN "timney-elite-curved"
  ELSE IF Len(M.triggers) > 0 THEN M.triggers[1].id
  ELSE Null

loadManifest(id) ==
  /\ manifest' = id
  /\ selectedColors' = defaultColors(Manifest(id))
  /\ selectedCaliber' = defaultCaliber(Manifest(id))
  /\ selectedSuppressor' = defaultSuppressor(Manifest(id))
  /\ selectedTrigger' = defaultTrigger(Manifest(id))
  /\ finishMode' = "colors"
  /\ selectedPattern' = Null
  /\ partColorOverrides' = EmptyObj
  /\ UNCHANGED modalVars

\* a setFinishMode that also drops the pattern on the way to colors mode
setFinishModeDropsPattern(mode) ==
  /\ finishMode' = mode
  /\ partColorOverrides' = IF mode = "colors" THEN EmptyObj
                           ELSE partColorOverrides
  /\ selectedPattern' = IF mode = "colors" THEN Null ELSE selectedPattern
  /\ UNCHANGED <<manifest, selectedColors,
                 selectedSuppressor, modalOpen, modalPartId>>
  /\ UNCHANGED hardwareVars

setFinishMode(mode) ==
  /\ finishMode' = mode
  /\ partColorOverrides' = IF mode = "colors" THEN EmptyObj
                           ELSE partColorOverrides
  /\ UNCHANGED <<manifest, selectedPattern, selectedColors,
                 selectedSuppressor, modalOpen, modalPartId>>
  /\ UNCHANGED hardwareVars

selectPattern(patternId) ==
  /\ selectedPattern' = patternId
  /\ finishMode' = "patterns"
  /\ partColorOverrides' = EmptyObj
  /\ UNCHANGED <<manifest, selectedColors, selectedSuppressor,
                 modalOpen, modalPartId>>
  /\ UNCHANGED hardwareVars

setPartColorOverride(partId, colorId) ==
  /\ partColorOverrides' =
       IF colorId = Null THEN Delete(partColorOverrides, partId)
       ELSE Spread(partColorOverrides, partId, colorId)
  /\ UNCHANGED <<manifest, finishMode, selectedPattern, selectedColors,
                 selectedSuppressor, modalOpen, modalPartId>>
  /\ UNCHANGED hardwareVars

\* newColors of selectPartColor with the carry handle / handle clamp sync
syncedColors(colors, partId, colorId) ==
  LET newColors == Spread(colors, partId, colorId) IN
  IF partId = "carryHandle" THEN Spread(newColors, "handleClamp", colorId)
  ELSE IF partId = "handleClamp"
  THEN Spread(newColors, "carryHandle", colorId)
  ELSE newColors

selectPartColor(partId, colorId) ==
  IF finishMode = "patterns"
  THEN setPartColorOverride(partId, colorId)
  ELSE /\ selectedColors' = syncedColors(selectedColors, partId, colorId)
       /\ finishMode' = "colors"
       /\ UNCHANGED <<manifest, selectedPattern, partColorOverrides,
                      selectedSuppressor, modalOpen, modalPartId>>
       /\ UNCHANGED hardwareVars

\* selectCaliber / selectTrigger
selectCaliber(caliberId) ==
  /\ selectedCaliber' = caliberId
  /\ UNCHANGED <<manifest, finishMode, selectedPattern, selectedColors,
                 partColorOverrides, selectedSuppressor, selectedTrigger,
                 modalOpen, modalPartId>>

selectTrigger(triggerId) ==
  /\ selectedTrigger' = triggerId
  /\ UNCHANGED <<manifest, finishMode, selectedPattern, selectedColors,
                 partColorOverrides, selectedSuppressor, selectedCaliber,
                 modalOpen, modalPartId>>

applyColorToAllParts(colorId) ==
  /\ manifest # Null
  /\ selectedColors' =
       [partId \in Range(ConfigurableParts(Manifest(manifest))) |-> colorId]
  /\ finishMode' = "colors"
  /\ UNCHANGED <<manifest, selectedPattern, partColorOverrides,
                 selectedSuppressor, modalOpen, modalPartId>>
  /\ UNCHANGED hardwareVars

clearPartColorOverride(partId) ==
  /\ partColorOverrides' = Delete(partColorOverrides, partId)
  /\ UNCHANGED <<manifest, finishMode, selectedPattern, selectedColors,
                 selectedSuppressor, modalOpen, modalPartId>>
  /\ UNCHANGED hardwareVars

selectSuppressor(suppressorId) ==
  /\ selectedSuppressor' = suppressorId
  /\ UNCHANGED <<manifest, finishMode, selectedPattern, selectedColors,
                 partColorOverrides, modalOpen, modalPartId>>
  /\ UNCHANGED hardwareVars

\* a reset that leaves the hardware selections alone
resetKeepsHardware ==
  IF manifest = Null
  THEN UNCHANGED <<storeVars, modalVars>>
  ELSE /\ finishMode' = "colors"
       /\ selectedPattern' = Null
       /\ selectedColors' = defaultColors(Manifest(manifest))
       /\ partColorOverrides' = EmptyObj
       /\ modalOpen' = FALSE
       /\ modalPartId' = Null
       /\ UNCHANGED <<manifest, selectedSuppressor, selectedCaliber,
                      selectedTrigger>>

\* without a manifest reset returns at once
reset ==
  IF manifest = Null
  THEN UNCHANGED <<storeVars, modalVars>>
  ELSE /\ finishMode' = "colors"
       /\ selectedPattern' = Null
       /\ selectedColors' = defaultColors(Manifest(manifest))
       /\ selectedCaliber' = defaultCaliber(Manifest(manifest))
       /\ selectedSuppressor' = defaultSuppressor(Manifest(manifest))
       /\ selectedTrigger' = defaultTrigger(Manifest(manifest))
       /\ partColorOverrides' = EmptyObj
       /\ modalOpen' = FALSE
       /\ modalPartId' = Null
       /\ UNCHANGED manifest

\* setModalOpen(false), the close button of the modal
setModalClosed ==
  /\ modalOpen' = FALSE
  /\ modalPartId' = Null
  /\ UNCHANGED storeVars

\* ------------------------------------------------------------------------
\* Handlers: each store action with the viewer's reaction, the scene load
\* and the pointer events of RifleModel
\* ------------------------------------------------------------------------
\* App calls loadManifest once per product, after the fetch
LoadManifest(id) ==
  /\ manifest \in {Null, id}
  /\ loadManifest(id)
  /\ ViewerReacts
  /\ UNCHANGED <<probe, heap, page>>

\* useGLTF resolves: RifleModel mounts and its effects run for the first time
SceneLoaded ==
  /\ manifest # Null
  /\ ~sceneLoaded
  /\ sceneLoaded' = TRUE
  /\ UNCHANGED <<storeVars, modalVars, hoveredMesh, selectedMesh, probe, heap, page>>
  /\ RunEffect(meshMaterial)

SetFinishMode(mode) ==
  /\ manifest # Null
  /\ setFinishMode(mode)
  /\ ViewerReacts
  /\ UNCHANGED <<probe, heap, page>>

SelectPattern(patternId) ==
  /\ manifest # Null
  /\ selectPattern(patternId)
  /\ ViewerReacts
  /\ UNCHANGED <<probe, heap, page>>

SelectPartColor(partId, colorId) ==
  /\ manifest # Null
  /\ selectPartColor(partId, colorId)
  /\ ViewerReacts
  /\ UNCHANGED <<probe, heap, page>>

ApplyColorToAllParts(colorId) ==
  /\ applyColorToAllParts(colorId)
  /\ ViewerReacts
  /\ UNCHANGED <<probe, heap, page>>

SetPartColorOverride(partId, colorId) ==
  /\ manifest # Null
  /\ setPartColorOverride(partId, colorId)
  /\ ViewerReacts
  /\ UNCHANGED <<probe, heap, page>>

ClearPartColorOverride(partId) ==
  /\ manifest # Null
  /\ clearPartColorOverride(partId)
  /\ ViewerReacts
  /\ UNCHANGED <<probe, heap, page>>

SelectSuppressor(suppressorId) ==
  /\ manifest # Null
  /\ selectSuppressor(suppressorId)
  /\ ViewerReacts
  /\ UNCHANGED <<probe, heap, page>>

SelectCaliber(caliberId) ==
  /\ manifest # Null
  /\ selectCaliber(caliberId)
  /\ ViewerReacts
  /\ UNCHANGED <<probe, heap, page>>

SelectTrigger(triggerId) ==
  /\ manifest # Null
  /\ selectTrigger(triggerId)
  /\ ViewerReacts
  /\ UNCHANGED <<probe, heap, page>>

Reset ==
  /\ reset
  /\ ViewerReacts
  /\ UNCHANGED <<probe, heap, page>>

CloseModal ==
  /\ modalOpen
  /\ setModalClosed
  /\ ViewerReacts
  /\ UNCHANGED <<probe, heap, page>>

\* handlePointerMove
PointerMove(mesh) ==
  /\ sceneLoaded
  /\ hoveredMesh' =
       IF Truthy(partOfMeshRef(mesh, manifest)) THEN mesh
       ELSE NoMesh
  /\ UNCHANGED <<storeVars, modalVars, selectedMesh, sceneLoaded, probe, heap, page>>
  /\ RunEffect(meshMaterial)

\* handlePointerLeave
PointerLeave ==
  /\ sceneLoaded
  /\ hoveredMesh' = NoMesh
  /\ UNCHANGED <<storeVars, modalVars, selectedMesh, sceneLoaded, probe, heap, page>>
  /\ RunEffect(meshMaterial)

\* the rays a click can cast: the meshes it intersects, nearest first
Rays(id) ==
  IF id = "MA"
  THEN {<<N_Sear, N_HubMount>>}
  ELSE IF id \in {"MC", "MD"} THEN {<<N_HandlePin, N_HandleClamp>>}
  ELSE {<<n>> : n \in Scene(id)} \cup
       (IF id = "MB"
        THEN {<<N_HandlePin, N_HandleClamp>>}
        ELSE {})

\* the meshes the pointer moves over
PointerTargets(id) ==
  IF id = "MA" THEN {N_Suppressor}
  ELSE IF id = "MC" THEN {N_CarryHandle}
  ELSE IF id = "MD" THEN {N_HandleClamp}
  ELSE Scene(id)

\* selectedMesh after handleClick on the nearest mesh
clickSelection(mesh, id) ==
  LET partId == partOfMeshRef(mesh, id) IN
  IF Truthy(partId)
  THEN IF selectedMesh # NoMesh /\ partOfMeshRef(selectedMesh, id) = partId
       THEN NoMesh
       ELSE mesh
  ELSE NoMesh

\* one click on the canvas: handleClick of RifleModel and onClick of
\* PartClickHandler (setModalPartId(partId); setModalOpen(true))
Click(intersects) ==
  /\ sceneLoaded
  /\ selectedMesh' = clickSelection(Head(intersects), manifest)
  /\ LET partId == clickedPart(intersects, manifest) IN
     IF Truthy(partId)
     THEN modalPartId' = partId /\ modalOpen' = TRUE
     ELSE UNCHANGED modalVars
  /\ UNCHANGED <<storeVars, hoveredMesh, sceneLoaded, probe, heap, page>>
  /\ RunEffect(meshMaterial)

\* ------------------------------------------------------------------------
\* Specifications
\* ------------------------------------------------------------------------
\* the color ids the user interface passes, and the ids a share link may
\* pass to setPartColorOverride (null clears the override)
UiColorIds == ColorIds(Manifest(manifest))
LinkColorIds == UiColorIds \cup StaleColorIds(manifest) \cup {Null}
Configurable == Range(ConfigurableParts(Manifest(manifest)))

Next ==
  \/ \E id \in ManifestIds : LoadManifest(id)
  \/ SceneLoaded
  \/ \E mode \in {"colors", "patterns"} : SetFinishMode(mode)
  \/ \E patternId \in PatternIds(Manifest(manifest)) : SelectPattern(patternId)
  \/ \E partId \in Configurable, colorId \in UiColorIds :
          SelectPartColor(partId, colorId)
  \/ \E partId \in Configurable, colorId \in LinkColorIds :
          SetPartColorOverride(partId, colorId)
  \/ \E partId \in Configurable : ClearPartColorOverride(partId)
  \/ \E colorId \in UiColorIds : ApplyColorToAllParts(colorId)
  \/ \E suppressorId \in SuppressorIds(Manifest(manifest)) :
          SelectSuppressor(suppressorId)
  \/ \E caliberId \in CaliberIds(Manifest(manifest)) :
          SelectCaliber(caliberId)
  \/ \E triggerId \in TriggerIds(Manifest(manifest)) :
          SelectTrigger(triggerId)
  \/ Reset
  \/ CloseModal
  \/ \E mesh \in PointerTargets(manifest) : PointerMove(mesh)
  \/ PointerLeave
  \/ \E intersects \in Rays(manifest) : Click(intersects)

Spec == Init /\ [][Next]_vars

\* the store driven with configurable part ids and existing color ids only
NextValid ==
  \/ \E id \in ManifestIds : LoadManifest(id)
  \/ SceneLoaded
  \/ \E mode \in {"colors", "patterns"} : SetFinishMode(mode)
  \/ \E patternId \in PatternIds(Manifest(manifest)) : SelectPattern(patternId)
  \/ \E partId \in Configurable, colorId \in UiColorIds :
          SelectPartColor(partId, colorId)
  \/ \E partId \in Configurable, colorId \in UiColorIds :
          SetPartColorOverride(partId, colorId)
  \/ \E partId \in Configurable : ClearPartColorOverride(partId)
  \/ \E colorId \in UiColorIds : ApplyColorToAllParts(colorId)
  \/ \E suppressorId \in SuppressorIds(Manifest(manifest)) :
          SelectSuppressor(suppressorId)
  \/ \E caliberId \in CaliberIds(Manifest(manifest)) :
          SelectCaliber(caliberId)
  \/ \E triggerId \in TriggerIds(Manifest(manifest)) :
          SelectTrigger(triggerId)
  \/ Reset

SpecValid == Init /\ [][NextValid]_vars

\* ------------------------------------------------------------------------
\* The pure functions on their own: one call per behaviour
\* ------------------------------------------------------------------------
\* longest string of the enumerated mesh names and selectors
MaxLen == 2

Alphabet == {"a", "B", "_", "-", "1", "*"}
Strings(n) == UNION {[1..k -> Alphabet] : k \in 0..n}

\* the names and selectors of the manifests, and the examples of the
\* comments of meshMatchesSelector
SceneNames ==
  UNION {Scene(id) : id \in ManifestIds}
    \cup {N_ClampKnob, N_AlphaSuppressor, N_AlphaBrake, N_BoltShaft}
ManifestSelectors ==
  UNION {UNION {Range(part.meshSelectors) \cup Range(part.excludeFromColor) :
                part \in Range(Manifest(id).parts)} : id \in ManifestIds}
    \cup {S_RifleSuppressor}

Call(op, meshName, selector, id) ==
  [op |-> op, meshName |-> meshName, selector |-> selector,
   manifest |-> id, result |-> "pending"]

\* a name and the same name with a variant suffix '-<digits>'
VariantSuffixes == {<<"-", "1">>, <<"-", "2">>, <<"-", "1", "0">>}
NormalizeCalls ==
  {[op |-> "normalize", meshName |-> n, selector |-> n \o suffix,
    manifest |-> Null, result |-> <<>>] :
     n \in Strings(MaxLen) \cup SceneNames \cup {<<"X", "_", "Y">>},
     suffix \in VariantSuffixes}

Calls ==
  {Call("matches", n, sel, Null) : n \in Strings(MaxLen), sel \in Strings(MaxLen)}
    \cup {Call("matches", n, sel, Null) :
            n \in SceneNames, sel \in ManifestSelectors \cup SceneNames}
    \cup {Call("resolve", n, <<>>, id) : n \in SceneNames, id \in ManifestIds}
    \cup UNION {{Call("click", n, <<>>, id) : n \in Scene(id)} :
                id \in ManifestIds}
    \cup NormalizeCalls

InitPure ==
  /\ manifest = Null
  /\ finishMode = "colors"
  /\ selectedPattern = Null
  /\ selectedColors = EmptyObj
  /\ partColorOverrides = EmptyObj
  /\ selectedSuppressor = Null
  /\ selectedCaliber = Null
  /\ selectedTrigger = Null
  /\ modalOpen = FALSE
  /\ modalPartId = Null
  /\ hoveredMesh = NoMesh
  /\ selectedMesh = NoMesh
  /\ sceneLoaded = FALSE
  /\ meshMaterial = [n \in {} |-> OriginalMaterial]
  /\ textureCache = EmptyCache
  /\ effect = NoEffect
  /\ probe \in Calls
  /\ heap = NoObjects
  /\ page = NoPage

Returned(value) ==
  /\ probe.result = "pending"
  /\ UNCHANGED <<heap, page>>
  /\ probe' = [probe EXCEPT !.result = value]
  /\ UNCHANGED <<storeVars, modalVars, viewerVars>>

CallMatches ==
  /\ probe.op = "matches"
  /\ Returned(IF meshMatchesSelector(probe.meshName, probe.selector)
              THEN "true" ELSE "false")

CallFindPartForMesh ==
  /\ probe.op = "resolve"
  /\ Returned(findPartForMesh(probe.meshName,
                              ConfigurableParts(Manifest(probe.manifest)),
                              Manifest(probe.manifest)))

\* a click whose ray meets the one mesh
CallOnClick ==
  /\ probe.op = "click"
  /\ Returned(clickedPart(<<probe.meshName>>, probe.manifest))

\* normalizePattern of a name and of its variant
CallNormalizePattern ==
  /\ probe.op = "normalize"
  /\ probe.result = <<>>
  /\ UNCHANGED <<heap, page>>
  /\ probe' = [probe EXCEPT !.result = <<normalizePattern(probe.meshName),
                                         normalizePattern(probe.selector)>>]
  /\ UNCHANGED <<storeVars, modalVars, viewerVars>>

NextPure ==
  \/ CallMatches
  \/ CallFindPartForMesh
  \/ CallOnClick
  \/ CallNormalizePattern

SpecPure == InitPure /\ [][NextPure]_vars

\* ------------------------------------------------------------------------
\* Properties
\* ------------------------------------------------------------------------
\* a pass has run on the current state
Passed == sceneLoaded /\ manifest # Null

\* what a material shows apart from the highlight: color, texture,
\* metalness, roughness
Finish(mat) ==
  <<mat.color, IF mat.map = <<>> THEN "" ELSE mat.map[1],
    mat.metalness, mat.roughness>>
FinishOf(option) ==
  Finish(createMaterialFromDefinition(option.material, Undefined))
Shows(meshName, option) == Finish(meshMaterial[meshName]) = FinishOf(option)

PartOf(meshName) == PartOfMesh[manifest][meshName]
\* a mesh of a configurable part that is neither fixed nor excluded
Ordinary(meshName) ==
  /\ Truthy(PartOf(meshName))
  /\ meshName \notin FIXED_BLACK_PARTS
  /\ ~ExcludedMesh[manifest][meshName]
SuppressorAttached == Truthy(selectedSuppressor) /\ selectedSuppressor # "none"
\* the adapter while it follows the suppressor
AdapterOnSuppressor(meshName) == meshName = N_HubMount /\ SuppressorAttached
ColorOption(colorId) == FindOption(Manifest(manifest).colors, colorId)
PatternOption(patternId) == FindOption(Manifest(manifest).patterns, patternId)
ExistingColor(colorId) == colorId \in ColorIds(Manifest(manifest))

\* C1 as claimed: with finishMode "patterns", an existing selected pattern
\* P and an existing override color C of part A, every non-fixed,
\* non-excluded mesh of A shows C, and every such mesh of a part without an
\* override shows P.
C1_OverrideOnEveryMesh ==
  (Passed /\ finishMode = "patterns"
     /\ selectedPattern \in PatternIds(Manifest(manifest)))
  => \A n \in Scene(manifest) :
       Ordinary(n) =>
         LET override == Get(partColorOverrides, PartOf(n)) IN
         /\ ExistingColor(override) => Shows(n, ColorOption(override))
         /\ override = Undefined => Shows(n, PatternOption(selectedPattern))

\* C1 amended: the same for every such mesh other than the adapter mesh
\* while a suppressor other than "none" is selected.
C1_OverrideOverPattern ==
  (Passed /\ finishMode = "patterns"
     /\ selectedPattern \in PatternIds(Manifest(manifest)))
  => \A n \in Scene(manifest) :
       (Ordinary(n) /\ ~AdapterOnSuppressor(n)) =>
         LET override == Get(partColorOverrides, PartOf(n)) IN
         /\ ExistingColor(override) => Shows(n, ColorOption(override))
         /\ override = Undefined => Shows(n, PatternOption(selectedPattern))

\* the hub mount painted over the pattern of the suppressor next to it,
\* with a suppressor attached
C1_Witness ==
  /\ Passed /\ manifest = "MA" /\ finishMode = "patterns"
  /\ selectedPattern = "kryptek-raid" /\ SuppressorAttached
  /\ Get(partColorOverrides, "hubMount") = "fde"
  /\ Get(partColorOverrides, "muzzleBrake") = Undefined
  /\ Shows(N_HubRing1, ColorOption("fde"))
  /\ Shows(N_Suppressor, PatternOption("kryptek-raid"))

\* the pass on the current state with the pattern and the overrides erased
WithoutPatternData ==
  LET S == [Snapshot EXCEPT !.selectedPattern = Null,
                            !.partColorOverrides = EmptyObj]
  IN [n \in DOMAIN meshMaterial |-> applyToMesh(n, meshMaterial[n], S, S)]

\* C2: with finishMode "colors", every mesh of a configurable part X (not
\* fixed, not excluded, not the adapter on a suppressor) shows the color
\* selectedColors[X], and the material of every mesh of the scene, the
\* adapter included, is the one the pass assigns when selectedPattern and
\* partColorOverrides are empty.
C2_ColorsIgnorePatternData ==
  (Passed /\ finishMode = "colors")
  => /\ \A n \in Scene(manifest) :
          (Ordinary(n) /\ ~AdapterOnSuppressor(n)
             /\ ExistingColor(Get(selectedColors, PartOf(n))))
          => Shows(n, ColorOption(selectedColors[PartOf(n)]))
     /\ meshMaterial = WithoutPatternData

\* C3: with finishMode "patterns" and no selected pattern, a mesh of part A
\* (not fixed, not excluded, not the adapter on a suppressor) shows the
\* color partColorOverrides[A] when that is an existing color, the color
\* selectedColors[A] when A has no override, and never the neutral default
\* when one of the two entries names an existing color.
C3_OverrideElseSelected ==
  (Passed /\ finishMode = "patterns" /\ ~Truthy(selectedPattern))
  => \A n \in Scene(manifest) :
       (Ordinary(n) /\ ~AdapterOnSuppressor(n)) =>
         LET override == Get(partColorOverrides, PartOf(n))
             selected == Get(selectedColors, PartOf(n))
         IN
         /\ ExistingColor(override) => Shows(n, ColorOption(override))
         /\ (override = Undefined /\ ExistingColor(selected))
              => Shows(n, ColorOption(selected))
         /\ (ExistingColor(override) \/ ExistingColor(selected))
              => Finish(meshMaterial[n]) # Finish(DefaultMaterial)

\* C4: after a pass, every mesh of the fixed-black list carries the static
\* neutral-dark material #1a1a1a, whatever the configuration, the hover
\* and the selection are.
C4_FixedBlackStaysBlack ==
  Passed => \A n \in Scene(manifest) \cap FIXED_BLACK_PARTS :
              meshMaterial[n] = FixedBlackMaterial

\* a fixed pin that the carry handle's keyword selector matches, hovered,
\* under a pattern
C4_Witness ==
  /\ Passed /\ manifest = "MB"
  /\ PartOf(N_HandlePin) = "carryHandle"
  /\ hoveredMesh = N_HandlePin
  /\ finishMode = "patterns" /\ selectedPattern = "kryptek-raid"
  /\ Get(partColorOverrides, "carryHandle") = "fde"
  /\ meshMaterial[N_HandlePin].color = "#1a1a1a"
  /\ meshMaterial[N_CarryHandle].emissive = "#BA2025"

\* C5: after a pass, every mesh that an excludeFromColor selector of its
\* part matches carries the static neutral-dark material.
C5_ExcludedStaysDark ==
  Passed => \A n \in Scene(manifest) :
              (ExcludedMesh[manifest][n] /\ n \notin FIXED_BLACK_PARTS)
              => meshMaterial[n] = FixedBlackMaterial

\* what the pass gives a mesh as a mesh of its own part
OwnPartFinish(meshName) ==
  IF ExcludedMesh[manifest][meshName] THEN Finish(FixedBlackMaterial)
  ELSE LET option == finishOption(PartOf(meshName), Snapshot,
                                  Manifest(manifest))
       IN IF option.id # Undefined THEN FinishOf(option)
          ELSE Finish(DefaultMaterial)

\* C6: after a pass, the adapter mesh shows its own part's finish while no
\* suppressor is attached, and the finish the Material Resolver gives part
\* "muzzleBrake" in the same state while one is attached.
C6_AdapterFollowsSuppressor ==
  (Passed /\ N_HubMount \in Scene(manifest))
  => IF ~SuppressorAttached
     THEN Finish(meshMaterial[N_HubMount]) = OwnPartFinish(N_HubMount)
     ELSE LET option == finishOption(muzzleBrakePartId, Snapshot,
                                     Manifest(manifest))
          IN option.id # Undefined => Shows(N_HubMount, option)

Returns(op) == probe.op = op /\ probe.result # "pending"

\* C7 as claimed: meshMatchesSelector returns true exactly when at least
\* one of the four rules succeeds on the pair, and false only when all four
\* fail.
C7_TrueIffSomeRule ==
  Returns("matches")
  => (probe.result = "true"
        <=> \/ RuleExact(probe.meshName, probe.selector)
            \/ RuleWildcard(probe.meshName, probe.selector)
            \/ RuleKeyword(probe.meshName, probe.selector)
            \/ RuleNormalized(probe.meshName, probe.selector))

\* C7 amended: an equal pair is true; otherwise the one rule the selector's
\* shape selects decides alone: the wildcard match when the selector
\* contains "*", else the keyword containment when it contains neither "_"
\* nor "-", else the normalized containment.
C7_FirstApplicableRuleDecides ==
  Returns("matches")
  => LET n == probe.meshName
         sel == probe.selector
         wildcard == HasChar(sel, "*")
         keyword == ~HasChar(sel, "_") /\ ~HasChar(sel, "-")
     IN /\ n = sel => probe.result = "true"
        /\ (n # sel /\ wildcard)
             => (probe.result = "true" <=> RuleWildcard(n, sel))
        /\ (n # sel /\ ~wildcard /\ keyword)
             => (probe.result = "true" <=> RuleKeyword(n, sel))
        /\ (n # sel /\ ~wildcard /\ ~keyword)
             => (probe.result = "true" <=> RuleNormalized(n, sel))

\* a keyword selector that does not occur in the name although the name
\* occurs in the selector: false
C7_Witness ==
  /\ Returns("matches") /\ probe.result = "false"
  /\ probe.meshName # <<>>
  /\ ~HasChar(probe.selector, "*")
  /\ ~RuleKeyword(probe.meshName, probe.selector)
  /\ RuleNormalized(probe.meshName, probe.selector)

\* C8: findPartForMesh returns the first part of configurableParts, in
\* order, that has a selector matching the name, whatever later parts
\* match it exactly, and null exactly when no part has one; the result is
\* a configurable part or null.
C8_FirstMatchingPart ==
  Returns("resolve")
  => LET M == Manifest(probe.manifest)
         parts == ConfigurableParts(M)
         matching ==
           {i \in 1..Len(parts) :
              \E sel \in Range(FindPart(M, parts[i]).meshSelectors) :
                meshMatchesSelector(probe.meshName, sel)}
     IN /\ probe.result \in Range(parts) \cup {Null}
        /\ matching = {} <=> probe.result = Null
        /\ matching # {}
             => probe.result =
                  parts[CHOOSE i \in matching : \A j \in matching : i <= j]

\* the clamp, which the carry handle's keyword matches first although the
\* later handle clamp names it exactly
C8_Witness ==
  /\ Returns("resolve") /\ probe.manifest = "MB"
  /\ probe.meshName = N_HandleClamp
  /\ N_HandleClamp \in Range(FindPart(Manifest("MB"), "handleClamp").meshSelectors)
  /\ probe.result = "carryHandle"

\* C9: the part a click on a mesh opens the modal for is the part the Part
\* Resolver gives the mesh, and the click opens no modal exactly when the
\* resolver returns null.
C9_ClickOpensResolvedPart ==
  Returns("click")
  => probe.result = PartOfMesh[probe.manifest][probe.meshName]

\* C10: once a manifest is loaded, every key of selectedColors and of
\* partColorOverrides is a configurable part and every value the id of a
\* color option.
C10_KeysAndValuesExist ==
  manifest # Null
  => /\ DOMAIN selectedColors \subseteq Configurable
     /\ DOMAIN partColorOverrides \subseteq Configurable
     /\ \A k \in DOMAIN selectedColors : ExistingColor(selectedColors[k])
     /\ \A k \in DOMAIN partColorOverrides :
          ExistingColor(partColorOverrides[k])

\* ------------------------------------------------------------------------
\* C11: entries that name no configurable part or no color option
\* ------------------------------------------------------------------------
\* obj without the entries whose key is no configurable part or whose value
\* is no color option of the manifest
ValidEntries(obj) ==
  [k \in {x \in DOMAIN obj : /\ x \in Configurable
                             /\ ExistingColor(obj[x])} |-> obj[k]]
WithoutInvalidEntries ==
  [Snapshot EXCEPT !.selectedColors = ValidEntries(selectedColors),
                   !.partColorOverrides = ValidEntries(partColorOverrides)]
\* C11: after a pass every mesh carries the material that the pass computes
\* from the same state without the invalid selectedColors and
\* partColorOverrides entries: an invalid entry counts as absent.
C11_InvalidEntryIsAbsent ==
  Passed =>
    \A meshName \in DOMAIN meshMaterial :
        meshMaterial[meshName] =
          applyToMesh(meshName, meshMaterial[meshName],
                      WithoutInvalidEntries, WithoutInvalidEntries)

\* ------------------------------------------------------------------------
\* Store operations observed together with the state they started from
\* ------------------------------------------------------------------------
\* the configuration fields of the store
Store ==
  [manifest |-> manifest, finishMode |-> finishMode,
   selectedPattern |-> selectedPattern, selectedColors |-> selectedColors,
   partColorOverrides |-> partColorOverrides,
   selectedSuppressor |-> selectedSuppressor,
   selectedCaliber |-> selectedCaliber, selectedTrigger |-> selectedTrigger]

\* the store as created (useConfigStore initial state)
InitialStore ==
  [manifest |-> Null, finishMode |-> "colors", selectedPattern |-> Null,
   selectedColors |-> EmptyObj, partColorOverrides |-> EmptyObj,
   selectedSuppressor |-> Null, selectedCaliber |-> Null,
   selectedTrigger |-> Null]

\* op: the operation that ran last; before: the store it started from;
\* origin: the store at the start of a finish-mode round trip;
\* loaded: the store right after the latest loadManifest
NoObservation ==
  [op |-> "none", before |-> InitialStore, origin |-> InitialStore,
   loaded |-> InitialStore]

InitStore ==
  /\ manifest = Null
  /\ finishMode = "colors"
  /\ selectedPattern = Null
  /\ selectedColors = EmptyObj
  /\ partColorOverrides = EmptyObj
  /\ selectedSuppressor = Null
  /\ selectedCaliber = Null
  /\ selectedTrigger = Null
  /\ modalOpen = FALSE
  /\ modalPartId = Null
  /\ hoveredMesh = NoMesh
  /\ selectedMesh = NoMesh
  /\ sceneLoaded = FALSE
  /\ meshMaterial = [n \in {} |-> OriginalMaterial]
  /\ textureCache = EmptyCache
  /\ effect = NoEffect
  /\ probe = NoObservation
  /\ heap = NoObjects
  /\ page = NoPage

\* no round trip is under way
Settled == probe.op # "away"

\* the operations whose starting state is kept
Watched == {"loadManifest", "reset"}
\* the manifests a session of this specification loads
StoreManifests == {"MA", "MC"}

Observed(op) ==
  /\ UNCHANGED <<heap, page>>
  /\ probe' = [op |-> op,
               before |-> IF op \in Watched THEN Store ELSE InitialStore,
               origin |-> InitialStore,
               loaded |-> IF op = "loadManifest" THEN Store'
                          ELSE probe.loaded]

otherMode(mode) == IF mode = "colors" THEN "patterns" ELSE "colors"

ObsLoadManifest(id) ==
  /\ Settled
  /\ loadManifest(id)
  /\ ViewerReacts
  /\ Observed("loadManifest")

ObsSceneLoaded ==
  /\ Settled
  /\ manifest # Null
  /\ ~sceneLoaded
  /\ sceneLoaded' = TRUE
  /\ UNCHANGED <<storeVars, modalVars, hoveredMesh, selectedMesh>>
  /\ RunEffect(meshMaterial)
  /\ Observed("sceneLoaded")

ObsSelectPattern(patternId) ==
  /\ Settled
  /\ manifest # Null
  /\ selectPattern(patternId)
  /\ ViewerReacts
  /\ Observed("selectPattern")

ObsSelectPartColor(partId, colorId) ==
  /\ Settled
  /\ manifest # Null
  /\ selectPartColor(partId, colorId)
  /\ ViewerReacts
  /\ Observed("selectPartColor")

ObsSetPartColorOverride(partId, colorId) ==
  /\ Settled
  /\ manifest # Null
  /\ setPartColorOverride(partId, colorId)
  /\ ViewerReacts
  /\ Observed("setPartColorOverride")

ObsSelectSuppressor(suppressorId) ==
  /\ Settled
  /\ manifest # Null
  /\ selectSuppressor(suppressorId)
  /\ ViewerReacts
  /\ Observed("selectSuppressor")

ObsSelectCaliber(caliberId) ==
  /\ Settled
  /\ manifest # Null
  /\ selectCaliber(caliberId)
  /\ ViewerReacts
  /\ Observed("selectCaliber")

ObsSelectTrigger(triggerId) ==
  /\ Settled
  /\ manifest # Null
  /\ selectTrigger(triggerId)
  /\ ViewerReacts
  /\ Observed("selectTrigger")

ObsReset ==
  /\ Settled
  /\ reset
  /\ ViewerReacts
  /\ Observed("reset")

\* setFinishMode(other mode), to be followed at once by ToggleBack
ToggleAway ==
  /\ Settled
  /\ manifest # Null
  /\ setFinishMode(otherMode(finishMode))
  /\ ViewerReacts
  /\ UNCHANGED <<heap, page>>
  /\ probe' = [op |-> "away", before |-> InitialStore, origin |-> Store,
               loaded |-> probe.loaded]

\* setFinishMode(the mode the round trip started in)
ToggleBack ==
  /\ probe.op = "away"
  /\ setFinishMode(probe.origin.finishMode)
  /\ ViewerReacts
  /\ UNCHANGED <<heap, page>>
  /\ probe' = [op |-> "roundTrip", before |-> InitialStore,
               origin |-> probe.origin, loaded |-> probe.loaded]

NextStore ==
  \/ \E id \in StoreManifests : ObsLoadManifest(id)
  \/ ObsSceneLoaded
  \/ \E patternId \in PatternIds(Manifest(manifest)) :
        ObsSelectPattern(patternId)
  \/ \E partId \in Configurable, colorId \in UiColorIds :
        ObsSelectPartColor(partId, colorId)
  \/ \E partId \in Configurable, colorId \in LinkColorIds :
        ObsSetPartColorOverride(partId, colorId)
  \/ \E suppressorId \in SuppressorIds(Manifest(manifest)) :
        ObsSelectSuppressor(suppressorId)
  \/ \E caliberId \in CaliberIds(Manifest(manifest)) :
        ObsSelectCaliber(caliberId)
  \/ \E triggerId \in TriggerIds(Manifest(manifest)) :
        ObsSelectTrigger(triggerId)
  \/ ObsReset
  \/ ToggleAway
  \/ ToggleBack

SpecStore == InitStore /\ [][NextStore]_vars

\* ------------------------------------------------------------------------
\* C12: setFinishMode(other) followed by setFinishMode(original)
\* ------------------------------------------------------------------------
\* the state the effect sees when the store holds st
ViewOf(st) ==
  [manifest |-> st.manifest, finishMode |-> st.finishMode,
   selectedPattern |-> st.selectedPattern,
   selectedColors |-> st.selectedColors,
   partColorOverrides |-> st.partColorOverrides,
   selectedSuppressor |-> st.selectedSuppressor,
   hoveredMesh |-> hoveredMesh, selectedMesh |-> selectedMesh]
\* every mesh carries what a pass on the store st gives it
RendersAs(st) ==
  sceneLoaded => meshMaterial = applyMaterials(meshMaterial, ViewOf(st),
                                               ViewOf(st))
RoundTripDone == probe.op = "roundTrip"

\* C12 (as stated): the round trip leaves selectedColors,
\* partColorOverrides and selectedPattern as they were, and every part
\* renders the finish it rendered before.
C12_RoundTripRestoresAll ==
  RoundTripDone =>
    /\ selectedColors = probe.origin.selectedColors
    /\ partColorOverrides = probe.origin.partColorOverrides
    /\ selectedPattern = probe.origin.selectedPattern
    /\ RendersAs(probe.origin)

\* C12 (amended): the round trip leaves finishMode, selectedColors and
\* selectedPattern as they were and leaves partColorOverrides empty; every
\* part renders the finish it rendered before when the state it started
\* from had no override.
C12_RoundTripClearsOverrides ==
  RoundTripDone =>
    /\ finishMode = probe.origin.finishMode
    /\ selectedColors = probe.origin.selectedColors
    /\ selectedPattern = probe.origin.selectedPattern
    /\ partColorOverrides = EmptyObj
    /\ (probe.origin.partColorOverrides = EmptyObj
          => RendersAs(probe.origin))

\* a round trip that started in patterns mode with a pattern and an
\* override, with the scene on display
C12_Witness ==
  /\ RoundTripDone
  /\ sceneLoaded
  /\ finishMode = "patterns"
  /\ Truthy(selectedPattern)
  /\ probe.origin.partColorOverrides # EmptyObj

\* ------------------------------------------------------------------------
\* C13, C14: reset and loadManifest
\* ------------------------------------------------------------------------
\* C13: reset puts finishMode, selectedPattern, selectedColors,
\* partColorOverrides, selectedCaliber, selectedSuppressor and
\* selectedTrigger back to the values they had right after the latest
\* loadManifest, whatever store actions came in between; without a manifest
\* it changes nothing.
C13_ResetRestoresLoadedState ==
  probe.op = "reset" =>
    IF probe.before.manifest = Null
    THEN Store = probe.before
    ELSE /\ manifest = probe.loaded.manifest
         /\ finishMode = probe.loaded.finishMode
         /\ selectedPattern = probe.loaded.selectedPattern
         /\ selectedColors = probe.loaded.selectedColors
         /\ partColorOverrides = probe.loaded.partColorOverrides
         /\ selectedCaliber = probe.loaded.selectedCaliber
         /\ selectedSuppressor = probe.loaded.selectedSuppressor
         /\ selectedTrigger = probe.loaded.selectedTrigger

\* a reset from a state whose mode, pattern, colors, overrides and trigger
\* all differ from the loaded ones
C13_Witness ==
  /\ probe.op = "reset"
  /\ probe.before.manifest # Null
  /\ probe.before.finishMode = "patterns"
  /\ Truthy(probe.before.selectedPattern)
  /\ probe.before.partColorOverrides # EmptyObj
  /\ probe.before.selectedColors # probe.loaded.selectedColors
  /\ probe.before.selectedTrigger # probe.loaded.selectedTrigger

\* the id the claim expects of a hardware list: the preferred one when
\* listed, else the first listed, else null
PreferredOrFirst(list, preferred) ==
  IF \E i \in 1..Len(list) : list[i].id = preferred THEN preferred
  ELSE IF Len(list) > 0 THEN list[1].id
  ELSE Null
FirstColorEverywhere ==
  /\ DOMAIN selectedColors = Configurable
  /\ \A partId \in Configurable :
        selectedColors[partId] = Manifest(manifest).colors[1].id
PreferredHardware ==
  /\ selectedCaliber =
       PreferredOrFirst(Manifest(manifest).calibers, "408-cheytac")
  /\ selectedSuppressor =
       PreferredOrFirst(Manifest(manifest).suppressors, "m3-suppressor")
  /\ selectedTrigger =
       PreferredOrFirst(Manifest(manifest).triggers, "timney-elite-curved")

\* C14 (as stated): right after loadManifest every configurable part has
\* the first color option, selectedPattern is the first pattern option and
\* every hardware selection is the preferred id, else the first, else null.
C14_LoadSelectsFirstPattern ==
  probe.op = "loadManifest" =>
    /\ FirstColorEverywhere
    /\ selectedPattern = Manifest(manifest).patterns[1].id
    /\ PreferredHardware

\* C14 (amended): right after loadManifest every configurable part has the
\* first color option, selectedPattern is null (finishMode is 'colors'),
\* and every hardware selection is the preferred id, else the first, else
\* null.
C14_LoadSelectsNoPattern ==
  probe.op = "loadManifest" =>
    /\ FirstColorEverywhere
    /\ selectedPattern = Null
    /\ finishMode = "colors"
    /\ PreferredHardware

\* a load over a customised state, into a manifest whose trigger list has
\* the preferred id second and whose caliber list lacks the preferred id
C14_Witness ==
  /\ probe.op = "loadManifest"
  /\ Truthy(probe.before.selectedPattern)
  /\ probe.before.partColorOverrides # EmptyObj
  /\ selectedTrigger = "timney-elite-curved"
  /\ selectedCaliber = "375-cheytac"

\* ------------------------------------------------------------------------
\* C19: the normalized form of a name and of its numbered variants
\* ------------------------------------------------------------------------
\* C19: normalization removes a trailing '-<digits>', so a name and the
\* same name followed by '-1', '-2', ... have the same normalized form.
C19_VariantsNormalizeAlike ==
  (probe.op = "normalize" /\ probe.result # <<>>) =>
    probe.result[1] = probe.result[2]

\* ------------------------------------------------------------------------
\* C20: the highlight of the hovered and of the selected part
\* ------------------------------------------------------------------------
\* a mesh that reaches finish resolution: of a configurable part, not
\* fixed, not excluded, not the coupled adapter
ReachesFinish(meshName) ==
  /\ Ordinary(meshName)
  /\ ~hubMountCoupled(meshName, Snapshot, Manifest(manifest))
Tinted(meshName) == meshMaterial[meshName].emissive = "#BA2025"
HoveredPart == partOfMeshRef(hoveredMesh, manifest)
SelectedPart == partOfMeshRef(selectedMesh, manifest)

\* C20: after a pass a mesh that reaches finish resolution carries the
\* highlight tint exactly when its part is the hovered or the selected
\* part, whether its material comes from a finish definition or is the
\* neutral default; with hover and selection cleared no mesh is tinted.
C20_TintIffHoveredOrSelected ==
  Passed =>
    /\ \A meshName \in Scene(manifest) :
          ReachesFinish(meshName) =>
            (Tinted(meshName) <=>
               \/ (Truthy(HoveredPart) /\ PartOf(meshName) = HoveredPart)
               \/ (Truthy(SelectedPart) /\ PartOf(meshName) = SelectedPart))
    /\ (hoveredMesh = NoMesh /\ selectedMesh = NoMesh
          => \A meshName \in Scene(manifest) : ~Tinted(meshName))

\* ------------------------------------------------------------------------
\* The material factory called in sequence (createMaterialFromDefinition)
\* ------------------------------------------------------------------------
\* two definitions over one texture file with different tiling maps, one
\* with a default entry only and one without a tiling map
CamoCoarse ==
  TextureDef("/textures/camo.jpg", NoNumber, NoNumber,
             [k \in {"muzzleBrake", "default"} |->
                IF k = "muzzleBrake" THEN <<2, 2>> ELSE <<4, 4>>])
CamoFine ==
  TextureDef("/textures/camo.jpg", 50, 50,
             [k \in {"default"} |-> <<8, 8>>])
Plain == TextureDef("/textures/plain.jpg", NoNumber, NoNumber, NoRepeat)
FactoryDefs == {CamoCoarse, CamoFine, Plain, ColorOptions[1].material}
FactoryPartIds == {"muzzleBrake", "hubMount", Undefined}

NoCreate == [op |-> "none"]

InitFactory ==
  /\ manifest = Null
  /\ finishMode = "colors"
  /\ selectedPattern = Null
  /\ selectedColors = EmptyObj
  /\ partColorOverrides = EmptyObj
  /\ selectedSuppressor = Null
  /\ selectedCaliber = Null
  /\ selectedTrigger = Null
  /\ modalOpen = FALSE
  /\ modalPartId = Null
  /\ hoveredMesh = NoMesh
  /\ selectedMesh = NoMesh
  /\ sceneLoaded = FALSE
  /\ meshMaterial = [n \in {} |-> OriginalMaterial]
  /\ textureCache = EmptyCache
  /\ effect = NoEffect
  /\ probe = NoCreate
  /\ heap = NoObjects
  /\ page = NoPage

\* one call: the material returned and the cache it leaves
CreateMaterial(materialDef, partId) ==
  /\ textureCache' = textureCacheAfter(textureCache, materialDef, partId)
  /\ UNCHANGED <<heap, page>>
  /\ probe' = [op |-> "create", materialDef |-> materialDef,
               partId |-> partId,
               hit |-> <<materialDef.textureUrl, partId>>
                         \in DOMAIN textureCache,
               material |->
                 createMaterialFromDefinition(materialDef, partId)]
  /\ UNCHANGED <<storeVars, modalVars, hoveredMesh, selectedMesh,
                 sceneLoaded, meshMaterial, effect>>

NextFactory ==
  \E materialDef \in FactoryDefs, partId \in FactoryPartIds :
      CreateMaterial(materialDef, partId)

SpecFactory == InitFactory /\ [][NextFactory]_vars

\* ------------------------------------------------------------------------
\* C16: the tiling of the texture of a returned material
\* ------------------------------------------------------------------------
\* the tiling the claim names for definition d and part p
ClaimedTiling(d, p) ==
  IF p \in DOMAIN d.repeat THEN d.repeat[p]
  ELSE IF "default" \in DOMAIN d.repeat THEN d.repeat["default"]
  ELSE <<1, 1>>

\* C16: after every call createMaterialFromDefinition(d, p) with a texture
\* definition d and a part id p, on a hit as on a miss and whatever was materialized before,
\* the texture of the returned material has the tiling d.repeat[p], else
\* d.repeat.default, else [1,1].
C16_TilingOfTheDefinition ==
  (/\ probe.op = "create"
   /\ probe.materialDef.type = "texture"
   /\ Truthy(probe.partId)) =>
    textureCache[probe.material.map] =
      ClaimedTiling(probe.materialDef, probe.partId)

\* ------------------------------------------------------------------------
\* C15: a second pass without any change in between
\* ------------------------------------------------------------------------
\* what a pass decides for a mesh: its material (definition and highlight)
\* and the tiling of its texture
Tiling(materials, cache, meshName) ==
  IF materials[meshName].map = <<>> THEN <<>>
  ELSE cache[materials[meshName].map]
SecondPassMaterials == applyMaterials(meshMaterial, Snapshot, Snapshot)
SecondPassCache ==
  cacheAfterPass(textureCache, meshMaterial, Snapshot, Snapshot)

\* C15: after a pass, a second pass on the same scene without any change
\* of configuration, hover or selection leaves every mesh with the same
\* material definition, the same texture tiling and the same highlight.
C15_SecondPassChangesNothing ==
  Passed =>
    \A meshName \in Scene(manifest) :
        /\ SecondPassMaterials[meshName] = meshMaterial[meshName]
        /\ Tiling(SecondPassMaterials, SecondPassCache, meshName)
             = Tiling(meshMaterial, textureCache, meshName)

\* a pass that laid a texture over one part, tiled per part, and the
\* highlight over the hovered part
C15_Witness ==
  /\ Passed /\ manifest = "MA"
  /\ finishMode = "patterns" /\ Truthy(selectedPattern)
  /\ hoveredMesh = N_Suppressor
  /\ meshMaterial[N_Suppressor].emissive = "#BA2025"
  /\ Tiling(meshMaterial, textureCache, N_Suppressor) = <<2, 2>>
  /\ Tiling(meshMaterial, textureCache, N_HubRing1) = <<4, 4>>

\* ------------------------------------------------------------------------
\* C17: a malformed material definition
\* ------------------------------------------------------------------------
\* a texture definition without textureUrl, a color definition without color
Malformed(materialDef) ==
  \/ materialDef.type = "texture" /\ ~Truthy(materialDef.textureUrl)
  \/ materialDef.type = "color" /\ ~Truthy(materialDef.color)
\* the definition the pass selects for the part of the mesh is malformed
GetsMalformed(meshName) ==
  /\ ReachesFinish(meshName)
  /\ finishOption(PartOf(meshName), Snapshot, Manifest(manifest)).id
       # Undefined
  /\ Malformed(finishOption(PartOf(meshName), Snapshot,
                            Manifest(manifest)).material)
\* the state with the well-formed twin of the manifest
WellFormedTwin == [Snapshot EXCEPT !.manifest = "MW"]

\* C17: when the definition selected for a part is malformed, the meshes of
\* that part receive the neutral default color #666666 without a texture,
\* and every other mesh receives exactly the material the pass gives it
\* when the definition is well-formed.
C17_MalformedFallsBackAlone ==
  (Passed /\ manifest = "MD") =>
    \A meshName \in Scene(manifest) :
        IF GetsMalformed(meshName)
        THEN /\ meshMaterial[meshName].color = "#666666"
             /\ meshMaterial[meshName].map = <<>>
        ELSE meshMaterial[meshName] =
               applyToMesh(meshName, meshMaterial[meshName],
                           WellFormedTwin, WellFormedTwin)

\* the pattern without a url on the carry handle while the clamp shows its
\* override black
C17_Witness ==
  /\ Passed /\ manifest = "MD"
  /\ finishMode = "patterns" /\ selectedPattern = "torn"
  /\ Get(partColorOverrides, "handleClamp") = "black"
  /\ GetsMalformed(N_CarryHandle)
  /\ ~GetsMalformed(N_HandleClamp)
  /\ meshMaterial[N_CarryHandle].color = "#666666"
  /\ meshMaterial[N_HandleClamp].color = "#1c1c1c"

\* ------------------------------------------------------------------------
\* Render, commit and passive effect as separate steps
\* ------------------------------------------------------------------------
\* A store action only writes the store. React renders RifleModel later on
\* the store of that moment; the material effect of a commit is passive: it
\* runs at some later time, at the latest right before the next render,
\* on the values it closed over, while getSelectedMaterials reads the store
\* through get().
NoPass == [op |-> "none"]

InitAsync ==
  /\ manifest = Null
  /\ finishMode = "colors"
  /\ selectedPattern = Null
  /\ selectedColors = EmptyObj
  /\ partColorOverrides = EmptyObj
  /\ selectedSuppressor = Null
  /\ selectedCaliber = Null
  /\ selectedTrigger = Null
  /\ modalOpen = FALSE
  /\ modalPartId = Null
  /\ hoveredMesh = NoMesh
  /\ selectedMesh = NoMesh
  /\ sceneLoaded = FALSE
  /\ meshMaterial = [n \in {} |-> OriginalMaterial]
  /\ textureCache = EmptyCache
  /\ effect = NoEffect
  /\ probe = NoPass
  /\ heap = NoObjects
  /\ page = NoPage

\* the parts and colors of the store actions of this specification
AsyncManifests == {"MA"}
AsyncParts == {"muzzleBrake"}
AsyncColorIds == {"black", "fde"}

\* the four configuration fields of a snapshot
Config(S) ==
  <<S.finishMode, S.selectedPattern, S.selectedColors, S.partColorOverrides>>

\* the pass of the waiting effect, and what it was given
PassOfEffect ==
  /\ meshMaterial' = applyMaterials(meshMaterial, effect.closure, Snapshot)
  /\ textureCache' =
       cacheAfterPass(textureCache, meshMaterial, effect.closure, Snapshot)
  /\ UNCHANGED <<heap, page>>
  /\ probe' = [op |-> "pass", before |-> meshMaterial,
               closure |-> effect.closure,
               stale |-> Config(Snapshot) # Config(effect.closure)]

AsyncLoadManifest(id) ==
  /\ manifest = Null
  /\ loadManifest(id)
  /\ ViewerReacts
  /\ UNCHANGED <<probe, heap, page>>

\* the first render on the loaded scene
AsyncSceneLoaded ==
  /\ manifest # Null
  /\ ~sceneLoaded
  /\ sceneLoaded' = TRUE
  /\ effect' = [closure |-> Snapshot, pending |-> TRUE]
  /\ UNCHANGED <<storeVars, modalVars, hoveredMesh, selectedMesh,
                 meshMaterial, textureCache, probe, heap, page>>

AsyncSetFinishMode(mode) ==
  /\ sceneLoaded
  /\ setFinishMode(mode)
  /\ UNCHANGED <<viewerVars, probe, heap, page>>

AsyncSelectPattern(patternId) ==
  /\ sceneLoaded
  /\ selectPattern(patternId)
  /\ UNCHANGED <<viewerVars, probe, heap, page>>

AsyncSelectPartColor(partId, colorId) ==
  /\ sceneLoaded
  /\ selectPartColor(partId, colorId)
  /\ UNCHANGED <<viewerVars, probe, heap, page>>

\* a render that flushes the waiting effect and commits none in its place
RenderCoalesced ==
  /\ sceneLoaded
  /\ Snapshot # effect.closure
  /\ effect' = [closure |-> Snapshot, pending |-> ~effect.pending]
  /\ UNCHANGED <<storeVars, modalVars, hoveredMesh, selectedMesh,
                 sceneLoaded>>
  /\ IF effect.pending THEN PassOfEffect
     ELSE UNCHANGED <<meshMaterial, textureCache, probe, heap, page>>

\* a render after a change of a dependency of the effect: the waiting
\* effect is flushed first, then the commit leaves the new effect waiting
Render ==
  /\ sceneLoaded
  /\ Snapshot # effect.closure
  /\ effect' = [closure |-> Snapshot, pending |-> TRUE]
  /\ UNCHANGED <<storeVars, modalVars, hoveredMesh, selectedMesh,
                 sceneLoaded>>
  /\ IF effect.pending THEN PassOfEffect
     ELSE UNCHANGED <<meshMaterial, textureCache, probe, heap, page>>

\* the waiting effect runs
FlushEffect ==
  /\ effect.pending
  /\ effect' = [effect EXCEPT !.pending = FALSE]
  /\ UNCHANGED <<storeVars, modalVars, hoveredMesh, selectedMesh,
                 sceneLoaded>>
  /\ PassOfEffect

NextAsync ==
  \/ \E id \in AsyncManifests : AsyncLoadManifest(id)
  \/ AsyncSceneLoaded
  \/ \E mode \in {"colors", "patterns"} : AsyncSetFinishMode(mode)
  \/ \E patternId \in PatternIds(Manifest(manifest)) :
        AsyncSelectPattern(patternId)
  \/ \E partId \in AsyncParts, colorId \in AsyncColorIds :
        AsyncSelectPartColor(partId, colorId)
  \/ Render
  \/ FlushEffect

SpecAsync == InitAsync /\ [][NextAsync]_vars

\* ------------------------------------------------------------------------
\* C18: one snapshot per pass
\* ------------------------------------------------------------------------
\* a mesh that the legacy table serves: no part, a table entry
LegacyServed(meshName, S) ==
  /\ ~isFixedBlack(meshName)
  /\ ~Truthy(PartOfMesh[S.manifest][meshName])
  /\ meshName \in DOMAIN getSelectedMaterials(S)

\* C18: every pass leaves every mesh with the material that one and the
\* same snapshot of finishMode, selectedPattern, selectedColors and
\* partColorOverrides gives it, the snapshot the effect closed over; a
\* store that changed before the pass ran shows on no mesh.
C18_OneSnapshotPerPass ==
  probe.op = "pass" =>
    \A meshName \in Scene(manifest) :
        meshMaterial[meshName] =
          applyToMesh(meshName, probe.before[meshName], probe.closure,
                      probe.closure)

\* a pass that ran after the store had moved on, over a scene with a mesh
\* of a part under a pattern and a mesh served by the legacy table
C18_Witness ==
  /\ probe.op = "pass"
  /\ probe.stale
  /\ probe.closure.finishMode = "patterns"
  /\ finishMode = "colors"
  /\ meshMaterial[N_Suppressor].map # <<>>
  /\ LegacyServed(N_TriggerShoe, Snapshot)
  /\ meshMaterial[N_TriggerShoe].color = "#000000"


\* ---------------------------------------------------------------------
\* The material effect under React's scheduling: every change of a
\* dependency is followed by a render, every committed effect is flushed
\* ---------------------------------------------------------------------

\* handlePointerMove: React state of RifleModel, a dependency of the effect
AsyncPointerMove(mesh) ==
  /\ sceneLoaded
  /\ hoveredMesh' =
       IF Truthy(partOfMeshRef(mesh, manifest)) THEN mesh
       ELSE NoMesh
  /\ UNCHANGED <<storeVars, modalVars, selectedMesh, sceneLoaded,
                 meshMaterial, textureCache, effect, probe, heap, page>>

\* handlePointerLeave
AsyncPointerLeave ==
  /\ sceneLoaded
  /\ hoveredMesh' = NoMesh
  /\ UNCHANGED <<storeVars, modalVars, selectedMesh, sceneLoaded,
                 meshMaterial, textureCache, effect, probe, heap, page>>

\* the options chosen while the effect is watched to its rest
SettlePatternIds == {"kryptek-raid"}
SettleColorIds == {"fde"}

NextSettle ==
  \/ \E id \in AsyncManifests : AsyncLoadManifest(id)
  \/ AsyncSceneLoaded
  \/ \E mode \in {"colors", "patterns"} : AsyncSetFinishMode(mode)
  \/ \E patternId \in SettlePatternIds : AsyncSelectPattern(patternId)
  \/ \E partId \in AsyncParts, colorId \in SettleColorIds :
       AsyncSelectPartColor(partId, colorId)
  \/ \E mesh \in PointerTargets("MA") : AsyncPointerMove(mesh)
  \/ AsyncPointerLeave
  \/ Render
  \/ FlushEffect

\* what Render does to the waiting effect: a step of NextSettle changes
\* effect this way exactly when it is a Render step
RenderCommit ==
  /\ sceneLoaded
  /\ Snapshot # effect.closure
  /\ effect' = [closure |-> Snapshot, pending |-> TRUE]

\* what FlushEffect does to the waiting effect: a step of NextSettle
\* changes effect this way exactly when it is a FlushEffect step
EffectFlushed ==
  /\ effect.pending
  /\ effect' = [effect EXCEPT !.pending = FALSE]

\* React renders after a dependency changed and flushes passive effects
SpecSettle ==
  /\ InitAsync /\ [][NextSettle]_vars
  /\ WF_effect(RenderCommit) /\ WF_effect(EffectFlushed)

\* a step that changes no dependency of the material effect
Quiet == UNCHANGED <<storeVars, hoveredMesh, selectedMesh>>

\* the assignment a pass over the freshly loaded scene computes from S alone
AssignmentOf(S) ==
  applyMaterials([meshName \in Scene(S.manifest) |-> OriginalMaterial], S, S)

\* no pass is owed and the scene shows the final state
PassSettled ==
  sceneLoaded =>
    /\ ~effect.pending
    /\ effect.closure = Snapshot
    /\ meshMaterial = AssignmentOf(Snapshot)

cacheKeyOf(textureUrl, partId) == textureUrl \o "_" \o partId

\* Map.prototype.set
MapSet(map, key, value) ==
  [k \in DOMAIN map \cup {key} |-> IF k = key THEN value ELSE map[k]]

\* a factory that keeps no base texture: every miss of the part's key loads
createObjectsNoBase(h, materialDef, partId) ==
  IF materialDef.type = "texture" /\ Truthy(materialDef.textureUrl)
  THEN LET url == materialDef.textureUrl
           cacheKey == cacheKeyOf(url, partId)
           material == Len(h.materials) + 1
           texture == Len(h.textures) + 1
       IN IF cacheKey \in DOMAIN h.cache
          THEN [h EXCEPT
                  !.materials = Append(@, [map |-> h.cache[cacheKey]])]
          ELSE [h EXCEPT
                  !.textures =
                     Append(@, [source |-> url, partId |-> partId,
                                repeat |-> repeatSettings(materialDef, partId),
                                image |-> "none"]),
                  !.loads =
                     Append(@, [url |-> url, texture |-> texture,
                                material |-> material,
                                state |-> "inflight"]),
                  !.cache = MapSet(@, cacheKey, texture),
                  !.materials = Append(@, [map |-> texture])]
  ELSE [h EXCEPT !.materials = Append(@, [map |-> 0])]

\* createMaterialFromDefinition at the level of objects: the new material is
\* the last of h.materials; a texture is named by its place in h.textures
\* and carries the file of its image and the part it was tiled for; a
\* material without texture has map 0
createObjects(h, materialDef, partId) ==
  IF materialDef.type = "texture" /\ Truthy(materialDef.textureUrl)
  THEN LET url == materialDef.textureUrl
           cacheKey == cacheKeyOf(url, partId)
           material == Len(h.materials) + 1
           texture == Len(h.textures) + 1
           tiling == repeatSettings(materialDef, partId)
       IN IF cacheKey \in DOMAIN h.cache
          THEN [h EXCEPT
                  !.materials = Append(@, [map |-> h.cache[cacheKey]])]
          ELSE IF url \in DOMAIN h.cache
          THEN \* baseTexture.clone(): the image of the base texture
               [h EXCEPT
                  !.textures =
                     Append(@, [source |-> h.textures[h.cache[url]].source,
                                partId |-> partId, repeat |-> tiling,
                                image |-> "shared"]),
                  !.cache = MapSet(@, cacheKey, texture),
                  !.materials = Append(@, [map |-> texture])]
          ELSE \* textureLoader.load(materialDef.textureUrl, ...)
               [h EXCEPT
                  !.textures =
                     Append(@, [source |-> url, partId |-> partId,
                                repeat |-> tiling, image |-> "none"]),
                  !.loads =
                     Append(@, [url |-> url, texture |-> texture,
                                material |-> material,
                                state |-> "inflight"]),
                  !.cache = MapSet(MapSet(@, url, texture), cacheKey, texture),
                  !.materials = Append(@, [map |-> texture])]
  ELSE [h EXCEPT !.materials = Append(@, [map |-> 0])]

\* a callback that hands the loaded texture to every material there is
onLoadAll(h, i) ==
  LET load == h.loads[i] IN
  [h EXCEPT !.textures[load.texture].image = "loaded",
            !.materials = [m \in DOMAIN @ |-> [map |-> load.texture]],
            !.loads[i].state = "loaded"]

\* the onLoad callback of load i: loadedTexture is the texture load()
\* returned, now with its image; material is the material of the call
onLoad(h, i) ==
  LET load == h.loads[i] IN
  [h EXCEPT !.textures[load.texture].image = "loaded",
            !.materials[load.material].map = load.texture,
            !.loads[i].state = "loaded"]

\* the onError callback of load i: console.error
onError(h, i) == [h EXCEPT !.loads[i].state = "failed"]

\* the materials one session creates
MaxMaterials == 3
\* two texture files, the name of the second being the key of the first
\* for the part stock, and a color
CamoUrl == "/textures/camo.jpg"
LoaderDefs ==
  {TextureDef(CamoUrl, NoNumber, NoNumber,
              [k \in {"stock"} |-> <<2, 2>>]),
   TextureDef(cacheKeyOf(CamoUrl, "stock"), NoNumber, NoNumber, NoRepeat),
   ColorOptions[1].material}
LoaderPartIds == {"stock", "grip", Undefined}
LoaderMeshes == {N_Suppressor, N_HubMount}

\* probe: the last call or callback and the objects it found
InitLoader == InitFactory

\* child.material = createMaterialFromDefinition(materialDef, partId)
AssignMaterial(meshName, materialDef, partId) ==
  /\ Len(heap.materials) < MaxMaterials
  /\ heap' = [createObjects(heap, materialDef, partId) EXCEPT
                !.mesh = MapSet(@, meshName, Len(heap.materials) + 1)]
  /\ probe' = [op |-> "create", materialDef |-> materialDef,
               partId |-> partId, load |-> 0, before |-> heap]
  /\ UNCHANGED <<storeVars, modalVars, viewerVars, page>>

\* the image of load i arrives
LoadCompletes(i) ==
  /\ heap.loads[i].state = "inflight"
  /\ heap' = onLoad(heap, i)
  /\ probe' = [op |-> "onLoad", materialDef |-> Null, partId |-> Null,
               load |-> i, before |-> heap]
  /\ UNCHANGED <<storeVars, modalVars, viewerVars, page>>

\* load i fails
LoadFails(i) ==
  /\ heap.loads[i].state = "inflight"
  /\ heap' = onError(heap, i)
  /\ probe' = [op |-> "onError", materialDef |-> Null, partId |-> Null,
               load |-> i, before |-> heap]
  /\ UNCHANGED <<storeVars, modalVars, viewerVars, page>>

NextLoader ==
  \/ \E meshName \in LoaderMeshes, materialDef \in LoaderDefs,
        partId \in LoaderPartIds :
       AssignMaterial(meshName, materialDef, partId)
  \/ \E i \in 1..Len(heap.loads) : LoadCompletes(i)
  \/ \E i \in 1..Len(heap.loads) : LoadFails(i)

SpecLoader == InitLoader /\ [][NextLoader]_vars

\* ------------------------------------------------------------------------
\* C22: loads and cache entries over a session
\* ------------------------------------------------------------------------
LoadedUrls(h) == {h.loads[i].url : i \in 1..Len(h.loads)}

\* a step that starts a load starts it for a file no load was started for
LoadsOncePerUrl ==
  Len(heap'.loads) > Len(heap.loads) =>
    /\ Len(heap'.loads) = Len(heap.loads) + 1
    /\ heap'.loads[Len(heap'.loads)].url \notin LoadedUrls(heap)

\* every entry of the Map is kept, under its key and with its texture
EntriesKept ==
  \A k \in DOMAIN heap.cache :
      k \in DOMAIN heap'.cache /\ heap'.cache[k] = heap.cache[k]

\* C22: over any sequence of passes a texture load is started at most once
\* for every distinct textureUrl, also while the first load is in flight
\* or after it failed, and an entry of the texture cache, under a url or
\* under a key of a part, is never removed or replaced.
C22_LoadOnceEntriesKept == [][LoadsOncePerUrl /\ EntriesKept]_vars

\* a second material over a file whose load failed, and one over a file
\* whose load is in flight, with one load each
C22_Witness ==
  /\ Len(heap.materials) = 3
  /\ \E i, j \in 1..Len(heap.loads) :
        /\ heap.loads[i].state = "failed"
        /\ heap.loads[j].state = "inflight"
        /\ Cardinality({m \in 1..3 : heap.materials[m].map # 0
                          /\ heap.textures[heap.materials[m].map].source
                               = heap.loads[i].url}) = 2


\* ------------------------------------------------------------------------
\* C23: what the completion of a load changes
\* ------------------------------------------------------------------------
Completed == probe.op \in {"onLoad", "onError"}
Initiator == probe.before.loads[probe.load].material

\* the tiling and the file of every texture
TextureSettings(h) ==
  [t \in 1..Len(h.textures) |-> <<h.textures[t].source, h.textures[t].repeat>>]

\* C23: the completion of a texture load, success or error, after any
\* number of later changes and passes leaves every mesh with the material
\* it referenced and every entry of the texture cache as it was; it
\* updates the material that started the load only, and an error changes
\* nothing at all.
C23_CompletionTouchesInitiatorOnly ==
  Completed =>
    /\ heap.mesh = probe.before.mesh
    /\ heap.cache = probe.before.cache
    /\ TextureSettings(heap) = TextureSettings(probe.before)
    /\ Len(heap.materials) = Len(probe.before.materials)
    /\ \A m \in 1..Len(heap.materials) :
          m # Initiator => heap.materials[m] = probe.before.materials[m]
    /\ probe.op = "onError" =>
         /\ heap.materials = probe.before.materials
         /\ heap.textures = probe.before.textures

\* the image arrives after the mesh of the load's material was given a
\* later material over another texture
C23_Witness ==
  /\ probe.op = "onLoad"
  /\ \A n \in DOMAIN heap.mesh : heap.mesh[n] # Initiator
  /\ \E n \in DOMAIN heap.mesh :
        LET later == heap.materials[heap.mesh[n]] IN
        /\ heap.mesh[n] > Initiator
        /\ later.map # 0
        /\ later.map # heap.materials[Initiator].map


\* ------------------------------------------------------------------------
\* C24: per-part overrides in colors mode
\* ------------------------------------------------------------------------
\* C24: in every state reached from loadManifest through the store actions
\* (setFinishMode, selectPattern, selectPartColor, applyColorToAllParts,
\* setPartColorOverride, clearPartColorOverride, reset), finishMode =
\* 'colors' implies that partColorOverrides is empty.
C24_ColorsModeHasNoOverrides ==
  (manifest # Null /\ finishMode = "colors") => partColorOverrides = EmptyObj


\* ------------------------------------------------------------------------
\* Share links (App.tsx: getShareData, loadSharedConfig)
\* ------------------------------------------------------------------------
\* the four fields of the store a link carries
ShareConfig(S) ==
  [finishMode |-> S.finishMode, selectedPattern |-> S.selectedPattern,
   selectedColors |-> S.selectedColors,
   partColorOverrides |-> S.partColorOverrides]

\* the keys of a set in one fixed order
RECURSIVE KeySeq(_)
KeySeq(keys) ==
  IF keys = {} THEN <<>>
  ELSE LET k == CHOOSE x \in keys : TRUE IN <<k>> \o KeySeq(keys \ {k})

\* the members of an object in the order JSON.stringify writes them and
\* Object.entries reads them: the order of insertion, which is the order
\* of configurableParts for the parts loadManifest entered, then the rest
Entries(obj, M) ==
  LET parts == ConfigurableParts(M)
      listed == SelectSeq(parts, LAMBDA partId : partId \in DOMAIN obj)
      keys == listed \o KeySeq(DOMAIN obj \ Range(parts))
  IN [i \in 1..Len(keys) |-> <<keys[i], obj[keys[i]]>>]

\* JSON.parse(atob(btoa(JSON.stringify({finishMode, selectedPattern,
\* selectedColors, partColorOverrides})))): the two objects as their
\* members in order
getShareData(S, M) ==
  [finishMode |-> S.finishMode, selectedPattern |-> S.selectedPattern,
   selectedColors |-> Entries(S.selectedColors, M),
   partColorOverrides |-> Entries(S.partColorOverrides, M)]

\* store.selectPartColor for every member of configData.selectedColors
RECURSIVE replayColors(_, _)
replayColors(c, members) ==
  IF members = <<>> THEN c
  ELSE LET partId == Head(members)[1]
           colorId == Head(members)[2]
       IN replayColors(
            IF c.finishMode = "patterns"
            THEN [c EXCEPT !.partColorOverrides = Spread(@, partId, colorId)]
            ELSE [c EXCEPT
                    !.selectedColors = syncedColors(@, partId, colorId),
                    !.finishMode = "colors"],
            Tail(members))

\* store.setPartColorOverride for every member of
\* configData.partColorOverrides
RECURSIVE replayOverrides(_, _)
replayOverrides(c, members) ==
  IF members = <<>> THEN c
  ELSE replayOverrides(
         [c EXCEPT !.partColorOverrides =
                      Spread(@, Head(members)[1], Head(members)[2])],
         Tail(members))

\* loadSharedConfig on the store fields c: setFinishMode, selectPattern,
\* then the colors, then the overrides
loadSharedConfig(c, configData) ==
  LET moded ==
        IF Truthy(configData.finishMode)
        THEN [c EXCEPT
                !.finishMode = configData.finishMode,
                !.partColorOverrides =
                   IF configData.finishMode = "colors" THEN EmptyObj ELSE @]
        ELSE c
      patterned ==
        IF Truthy(configData.selectedPattern)
        THEN [moded EXCEPT !.selectedPattern = configData.selectedPattern,
                           !.finishMode = "patterns",
                           !.partColorOverrides = EmptyObj]
        ELSE moded
  IN replayOverrides(replayColors(patterned, configData.selectedColors),
                     configData.partColorOverrides)

\* the store fields right after loadManifest
LoadDefaults(M) ==
  [finishMode |-> "colors", selectedPattern |-> Null,
   selectedColors |-> defaultColors(M), partColorOverrides |-> EmptyObj]

\* the store fields a freshly loaded store holds after the link of S
Replayed(S) ==
  loadSharedConfig(LoadDefaults(Manifest(S.manifest)),
                   getShareData(S, Manifest(S.manifest)))

\* C25: for every state S reachable from the load defaults, replaying the
\* link getShareData builds from S onto a freshly loaded store
\* (setFinishMode, selectPattern, selectPartColor per selectedColors
\* entry, setPartColorOverride per override entry) yields finishMode,
\* selectedPattern, selectedColors and partColorOverrides equal to those
\* of S.
C25_ShareLinkRoundTrip ==
  manifest # Null => Replayed(Snapshot) = ShareConfig(Snapshot)


\* ------------------------------------------------------------------------
\* A page opened on a share link: the fetch of the manifest and the timer
\* of loadSharedConfig (App.tsx, the mount effect)
\* ------------------------------------------------------------------------
\* the configurations the links were made from: colors mode with a color
\* chosen for one part, and for both
SharedConfigs ==
  {[finishMode |-> "colors", selectedPattern |-> Null,
    selectedColors |->
      [partId \in {"muzzleBrake", "hubMount"} |->
         IF partId = "muzzleBrake" THEN "fde" ELSE other],
    partColorOverrides |-> EmptyObj] : other \in {"black", "fde"}}
SharedLinks == {getShareData(S, Manifest("MA")) : S \in SharedConfigs}

\* the object a list of members stands for
FromEntries(members) ==
  [k \in {members[i][1] : i \in 1..Len(members)} |->
     LET i == CHOOSE j \in 1..Len(members) : members[j][1] = k
     IN members[i][2]]

\* the configuration a link carries
CarriedConfig(configData) ==
  [finishMode |-> configData.finishMode,
   selectedPattern |-> configData.selectedPattern,
   selectedColors |-> FromEntries(configData.selectedColors),
   partColorOverrides |-> FromEntries(configData.partColorOverrides)]

\* the mount effect has run: the fetch is under way, the timer is set
InitShare ==
  /\ manifest = Null
  /\ finishMode = "colors"
  /\ selectedPattern = Null
  /\ selectedColors = EmptyObj
  /\ partColorOverrides = EmptyObj
  /\ selectedSuppressor = Null
  /\ selectedCaliber = Null
  /\ selectedTrigger = Null
  /\ modalOpen = FALSE
  /\ modalPartId = Null
  /\ hoveredMesh = NoMesh
  /\ selectedMesh = NoMesh
  /\ sceneLoaded = FALSE
  /\ meshMaterial = [n \in {} |-> OriginalMaterial]
  /\ textureCache = EmptyCache
  /\ effect = NoEffect
  /\ probe = NoObservation
  /\ heap = NoObjects
  /\ page \in {[opened |-> configData, search |-> configData,
                timer |-> "armed"] : configData \in SharedLinks}

\* loadProductManifest: the fetch resolves and loadManifest runs
ManifestArrives(id) ==
  /\ manifest = Null
  /\ ObsLoadManifest(id)

\* setTimeout(loadSharedConfig, 1000) fires: the configuration of the URL
\* is replayed on the store as it is, and the URL is cleaned
TimerFires ==
  /\ page.timer = "armed"
  /\ LET c == IF page.search = NoLink THEN ShareConfig(Snapshot)
              ELSE loadSharedConfig(ShareConfig(Snapshot), page.search)
     IN /\ finishMode' = c.finishMode
        /\ selectedPattern' = c.selectedPattern
        /\ selectedColors' = c.selectedColors
        /\ partColorOverrides' = c.partColorOverrides
  /\ UNCHANGED <<manifest, selectedSuppressor, hardwareVars, modalVars>>
  /\ ViewerReacts
  /\ page' = [page EXCEPT !.search = NoLink, !.timer = "fired"]
  /\ probe' = [probe EXCEPT !.op = "loadSharedConfig"]
  /\ UNCHANGED heap

NextShare ==
  \/ ManifestArrives("MA")
  \/ TimerFires
  \/ ObsSceneLoaded
  \/ \E patternId \in PatternIds(Manifest(manifest)) :
        ObsSelectPattern(patternId)
  \/ \E partId \in Configurable, colorId \in UiColorIds :
        ObsSelectPartColor(partId, colorId)

SpecShare == InitShare /\ [][NextShare]_vars

\* the later of the two has just completed
BothCompleted ==
  /\ manifest # Null
  /\ page.timer = "fired"
  /\ probe.op \in {"loadManifest", "loadSharedConfig"}

\* C26: when the page URL carries a shared configuration, that
\* configuration is in effect once both the manifest load
\* (loadProductManifest -> loadManifest) and the timer-driven
\* loadSharedConfig have completed, whichever of the two completes first.
C26_SharedConfigInEffect ==
  (page.opened # NoLink /\ BothCompleted) =>
     ShareConfig(Snapshot) = CarriedConfig(page.opened)


\* ------------------------------------------------------------------------
\* C27: the texture a call is handed
\* ------------------------------------------------------------------------
\* the texture of the material the last call returned
ReturnedTexture == heap.textures[heap.materials[Len(heap.materials)].map]

\* C27: the texture cache never confuses two requests: calls with
\* different (textureUrl, partId) never obtain the same cached texture
\* through a coincidence of keys, an entry of a part of one url is never
\* returned as the base entry of another url, and a call without partId
\* never shares an entry with a call for a named part. Every call is
\* handed a texture of its own file, made for its own part.
C27_TextureOfTheRequest ==
  (probe.op = "create" /\ probe.materialDef.type = "texture") =>
     /\ ReturnedTexture.source = probe.materialDef.textureUrl
     /\ ReturnedTexture.partId = probe.partId


\* ------------------------------------------------------------------------
\* C28: the carry handle and its clamp
\* ------------------------------------------------------------------------
BothHandlesConfigurable ==
  /\ manifest # Null
  /\ {"carryHandle", "handleClamp"} \subseteq Configurable

\* C28: for a manifest in which 'carryHandle' and 'handleClamp' are both
\* configurable parts, in every state reached from loadManifest through
\* the store actions the finish resolved for 'carryHandle' is the same
\* FinishOption as the finish resolved for 'handleClamp'.
C28_HandleAndClampSameFinish ==
  BothHandlesConfigurable =>
    finishOption("carryHandle", Snapshot, Manifest(manifest))
      = finishOption("handleClamp", Snapshot, Manifest(manifest))


\* ------------------------------------------------------------------------
\* C29: the modal and the selection of the viewer
\* ------------------------------------------------------------------------
\* C29: under any sequence of mesh clicks and modal open/close events,
\* whenever the configuration modal is open for part P as the result of a
\* click on a mesh, the part selected in the viewer is P: a second click on
\* a mesh of P while the modal for P is open leaves P selected, and after
\* the modal closes no mesh remains selected.
C29_ModalPartIsSelected ==
  [][/\ modalOpen' => partOfMeshRef(selectedMesh', manifest') = modalPartId'
     /\ (modalOpen /\ ~modalOpen') => selectedMesh' = NoMesh]_vars

\* ------------------------------------------------------------------------
\* C30: the finish named in the order and the finish shown in the viewer
\* ------------------------------------------------------------------------
\* option.label of the options of the manifests; '' passes z.string()
OptionLabels ==
  ("black" :> "Black") @@ ("fde" :> "Flat Dark Earth") @@ ("bare" :> "")
    @@ ("kryptek-raid" :> "Kryptek Raid") @@ ("torn" :> "Torn")

\* option?.label: undefined when find() found nothing
labelOf(option) ==
  IF option.id \in DOMAIN OptionLabels THEN OptionLabels[option.id]
  ELSE Undefined

\* getFinishName of handleStartOrder
getFinishName(finishId, isPattern, M) ==
  LET label == labelOf(FindOption(IF isPattern THEN M.patterns ELSE M.colors,
                                  finishId))
  IN IF Truthy(label) THEN label ELSE finishId

NotSpecified == "Not specified"

\* getPartFinish of handleStartOrder
\* (below it, a helper that reads the override in either mode)
getPartFinishAnyMode(partId, S, M) ==
  LET override == Get(S.partColorOverrides, partId)
      colorId == Get(S.selectedColors, partId)
  IN
  IF Truthy(override)
  THEN getFinishName(override, FALSE, M)
  ELSE IF S.finishMode = "patterns" /\ Truthy(S.selectedPattern)
  THEN getFinishName(S.selectedPattern, TRUE, M)
  ELSE IF Truthy(colorId) THEN getFinishName(colorId, FALSE, M)
       ELSE NotSpecified

getPartFinish(partId, S, M) ==
  LET override == Get(S.partColorOverrides, partId)
      colorId == Get(S.selectedColors, partId)
  IN
  IF S.finishMode = "patterns" /\ Truthy(override)
  THEN getFinishName(override, FALSE, M)
  ELSE IF S.finishMode = "patterns" /\ Truthy(S.selectedPattern)
  THEN getFinishName(S.selectedPattern, TRUE, M)
  ELSE IF Truthy(colorId) THEN getFinishName(colorId, FALSE, M)
       ELSE NotSpecified

\* the option whose definition the traversal hands to the factory for a
\* mesh that is neither fixed black nor excluded
resolvedOption(meshName, S, K) ==
  IF hubMountCoupled(meshName, S, K.M) THEN suppressorOption(S, K.M)
  ELSE finishOption(K.parts[meshName], S, K.M)

\* the name under which the order reports an option
nameOfOption(option) ==
  IF option.id = Undefined THEN NotSpecified
  ELSE IF Truthy(labelOf(option)) THEN labelOf(option) ELSE option.id

\* every entry of the configuration names an option of the manifest
NamesExistingOptions(S, M) ==
  /\ \A k \in DOMAIN S.selectedColors :
       FindOption(M.colors, S.selectedColors[k]).id # Undefined
  /\ \A k \in DOMAIN S.partColorOverrides :
       FindOption(M.colors, S.partColorOverrides[k]).id # Undefined
  /\ S.selectedPattern # Null =>
       FindOption(M.patterns, S.selectedPattern).id # Undefined

\* the meshes of the scene that the traversal finishes for part partId
FinishedMeshesOf(partId, K, id) ==
  {meshName \in Scene(id) :
     /\ K.M.hasConfigurableParts /\ K.M.hasFinishModes
     /\ ~isFixedBlack(meshName)
     /\ K.parts[meshName] = partId
     /\ ~K.excluded[meshName]}

\* the order names, for every finished mesh of every configurable part
\* outside the set skipped, the option resolved for that mesh
OrderNamesFinish(S, K, skipped) ==
  NamesExistingOptions(S, K.M) =>
    \A partId \in Range(ConfigurableParts(K.M)) :
      \A meshName \in FinishedMeshesOf(partId, K, S.manifest) \ skipped :
        getPartFinish(partId, S, K.M)
          = nameOfOption(resolvedOption(meshName, S, K))

\* the adapter mesh while the coupling rule applies to it
CoupledMeshes(S, K) ==
  {meshName \in Scene(S.manifest) : hubMountCoupled(meshName, S, K.M)}

====
